---- MODULE Spec2Model ----
(***************************************************************************)
(* Model of the clipd history store (clipd/src/db.rs) and of its callers:  *)
(* the ingestion task (clipd/src/service.rs) and the protocol sessions     *)
(* (clipd/src/ipc.rs).                                                     *)
(*                                                                         *)
(* A stored row keeps the columns the store's logic reads: id, created_at, *)
(* hash, text and tags.  The columns kind, data, bytes_len and             *)
(* source_process are written by INSERT and read back by entry_from_row    *)
(* without any decision depending on them; they are not modelled.          *)
(* created_at is a number: the column holds to_rfc3339() of a UTC time,    *)
(* whose text order is the time order.  The tags column holds the JSON     *)
(* text of the tag list, modelled as a sequence of characters.             *)
(***************************************************************************)
EXTENDS Integers, Sequences, FiniteSets, TLC

\* ------------------------------------------------------------------ bounds
\* Config::max_entries, the configured maximum row count.
max_entries == 2
\* Largest id the model lets AUTOINCREMENT hand out.
MaxId == 4
\* Timestamps an entry may carry.
MaxTime == 2
\* Longest import file written by the user, in entries.
MaxFileLen == 2
\* Largest value the clipboard sequence number takes.
MaxSequence == 3

Times == 1..MaxTime
Tags == {"a", "b"}
\* Paths export writes to; "user" names a file prepared outside the daemon.
Paths == {"out"}
Sessions == {1, 2}

\* ------------------------------------------------------------- tag <-> JSON
RECURSIVE JoinTags(_)
JoinTags(tags) ==
    IF tags = <<>> THEN <<>>
    ELSE IF Len(tags) = 1 THEN <<"\"", tags[1], "\"">>
    ELSE <<"\"", tags[1], "\"", ",">> \o JoinTags(Tail(tags))

\* serde_json::to_string(&entry.tags)
TagsToJson(tags) == <<"[">> \o JoinTags(tags) \o <<"]">>

\* The JSON text is a well-formed array of one-character strings.
WellFormedTagsJson(j) ==
    /\ Len(j) >= 2
    /\ j[1] = "["
    /\ j[Len(j)] = "]"
    /\ \/ Len(j) = 2
       \/ /\ (Len(j) - 1) % 4 = 0
          /\ \A i \in 2..(Len(j) - 1) :
                CASE (i - 2) % 4 = 0 -> j[i] = "\""
                  [] (i - 2) % 4 = 1 -> j[i] \in Tags
                  [] (i - 2) % 4 = 2 -> j[i] = "\""
                  [] OTHER -> j[i] = ","

\* serde_json::from_str(&tags_json).unwrap_or_default()
TagsFromJson(j) ==
    IF WellFormedTagsJson(j)
    THEN [k \in 1..((Len(j) - 1) \div 4) |-> j[4 * k - 1]]
    ELSE <<>>

\* ------------------------------------------------------------------ entries
\* clipboard.rs hash_data: the digest of the captured bytes; distinct contents
\* have distinct digests.
hash_data(x) ==
    CASE x = "hello" -> "h1"
      [] x = "world" -> "h2"
      [] x = "dib" -> "h7"
      [] x = "rtf" -> "h8"
      [] OTHER -> "h3"

Texts == {"hello", "world", "Hello"}

\* model::Entry restricted to the modelled fields; id = 0 is None.
Entry(t, h, x, tg) ==
    [id |-> 0, created_at |-> t, hash |-> h, text |-> x, tags |-> tg]

\* Entries the watcher produces: hash of the content, no tags yet.
CapturedEntries == {Entry(t, hash_data(x), x, <<>>) : t \in Times, x \in Texts}

\* Entries of import files written outside the daemon: one shares its hash
\* with a captured content and carries tags, one has a hash of its own.
FileEntries ==
    {Entry(1, "h1", "hello", <<"a", "b">>),
     Entry(MaxTime, "h4", "bye", <<"a">>)}

\* Elements of an import file: a JSON value that deserializes as an Entry
\* (ok) or one that does not.
Garbage == [ok |-> FALSE, entry |-> Entry(1, "h1", "hello", <<>>)]
FileItems == {[ok |-> TRUE, entry |-> e] : e \in FileEntries} \cup {Garbage}

RECURSIVE SeqsUpTo(_, _)
SeqsUpTo(S, n) ==
    IF n = 0 THEN {<<>>}
    ELSE LET shorter == SeqsUpTo(S, n - 1) IN
         shorter \cup {Append(q, x) : q \in {r \in shorter : Len(r) = n - 1}, x \in S}

UserFiles == SeqsUpTo(FileItems, MaxFileLen)

\* Import files the sessions of the concurrent specification are sent.
SessionItems ==
    {[ok |-> TRUE, entry |-> e] : e \in {f \in FileEntries : f.hash = "h1"}}
        \cup {Garbage}
SessionFiles == SeqsUpTo(SessionItems, MaxFileLen)

\* The row INSERT writes for entry e under the id the table assigns.
RowOf(e, id) ==
    [id |-> id, created_at |-> e.created_at, hash |-> e.hash,
     text |-> e.text, tags |-> TagsToJson(e.tags)]

\* The tags column is not read back.
entry_from_row_no_tags(r) ==
    [id |-> r.id, created_at |-> r.created_at, hash |-> r.hash,
     text |-> r.text, tags |-> <<>>]

\* entry_from_row: a row read back as an Entry.
entry_from_row(r) ==
    [id |-> r.id, created_at |-> r.created_at, hash |-> r.hash,
     text |-> r.text, tags |-> TagsFromJson(r.tags)]

\* --------------------------------------------------------------- the store
VARIABLES
    rows,       \* the entries table: a set of rows
    seq,        \* sqlite_sequence: the largest id AUTOINCREMENT has assigned
    files,      \* the file system: path -> [exists, items]
    ingest,     \* the ingestion task's position in insert_entry
    sess,       \* per session: position in handle_client and entries left to import
    exported,   \* history: the rows the store held when a path was exported
    everIds,    \* history: every id ever assigned to a row of this database
    last,       \* history: the last mutating store call run to completion
    resp,       \* history: the entries the latest step returned or wrote, if any
    listener,   \* Server::run's position in its accept loop
    trail,      \* history: what sessions and listener have come through
    clipboard,  \* the host clipboard: sequence number, formats held, lock
    watcher,    \* ClipboardWatcher::run's locals, and what it has forwarded
    queue,      \* the channel from the watcher to the ingestion loop
    daemon,     \* main: awaiting run, or how the process came to shut down
    client      \* clipctl: its event loop, its end of the pipe, what its UI got

\* What the store and server steps leave alone.
pipeline == <<clipboard, watcher, queue, daemon, client>>

vars == <<rows, seq, files, ingest, sess, exported, everIds, last, resp,
          listener, trail, clipboard, watcher, queue, daemon, client>>

\* The lookup compares the text column with the hash.
HashExistsByText(rs, h) == \E r \in rs : r.text = h

\* SELECT 1 FROM entries WHERE hash = ?1
HashExists(rs, h) == \E r \in rs : r.hash = h

\* A plain INTEGER PRIMARY KEY: one more than the largest id in the table.
NextIdMaxRowid(rs, sq) ==
    IF rs = {} THEN 1
    ELSE (CHOOSE m \in {r.id : r \in rs} : \A r \in rs : r.id <= m) + 1

\* id INTEGER PRIMARY KEY AUTOINCREMENT: one more than the largest id ever used.
NextId(rs, sq) == sq + 1

\* INSERT INTO entries (...) VALUES (...); only reached when the hash is new,
\* so the UNIQUE constraint on hash never rejects it.
InsertRow(rs, sq, e) == rs \cup {RowOf(e, NextId(rs, sq))}

\* ORDER BY created_at DESC in the DELETE's subquery: the newest rows go.
NewestSets(rs, n) ==
    {D \in SUBSET rs :
        /\ Cardinality(D) = n
        /\ \A d \in D : \A r \in rs \ D : d.created_at >= r.created_at}

\* The sets of rows DELETE ... WHERE id IN (SELECT id ... ORDER BY created_at
\* ASC LIMIT n) may remove: SQL leaves the order among equal created_at open.
OldestSets(rs, n) ==
    {D \in SUBSET rs :
        /\ Cardinality(D) = n
        /\ \A d \in D : \A r \in rs \ D : d.created_at <= r.created_at}

\* One row is deleted however many the table holds beyond the limit.
to_delete_one(count) == 1

\* let to_delete = count as usize - self.max_entries, computed when count is
\* above max_entries.
to_delete(count) == count - max_entries

\* The limit test is off by one: one row too many is tolerated.
cleanup_off_by_one(rs) ==
    LET count == Cardinality(rs) IN
    IF count > max_entries + 1
    THEN {rs \ D : D \in OldestSets(rs, count - max_entries)}
    ELSE {rs}

\* cleanup_old_entries: the row sets the store may hold afterwards.
cleanup_old_entries(rs) ==
    LET count == Cardinality(rs) IN
    IF count > max_entries
    THEN {rs \ D : D \in OldestSets(rs, to_delete(count))}
    ELSE {rs}

\* INSERT OR REPLACE: a known hash has its row replaced by the new entry.
insert_or_replace(rs, sq, e) ==
    {[rows |-> after, seq |-> NextId(rs, sq)] :
        after \in cleanup_old_entries(
                     InsertRow({r \in rs : r.hash # e.hash}, sq, e))}

\* insert_entry run to completion: the stores [rows, seq] it may leave.
insert_entry(rs, sq, e) ==
    IF HashExists(rs, e.hash)
    THEN {[rows |-> rs, seq |-> sq]}
    ELSE {[rows |-> after, seq |-> NextId(rs, sq)] :
             after \in cleanup_old_entries(InsertRow(rs, sq, e))}

\* A parser that drops the elements that do not deserialize.
ParseEntriesLenient(items) ==
    LET kept == SelectSeq(items, LAMBDA it : it.ok) IN
    [ok |-> TRUE, entries |-> [i \in DOMAIN kept |-> kept[i].entry]]

\* serde_json::from_reader::<Vec<Entry>>: every element must deserialize.
ParseEntries(items) ==
    IF \A i \in DOMAIN items : items[i].ok
    THEN [ok |-> TRUE, entries |-> [i \in DOMAIN items |-> items[i].entry]]
    ELSE [ok |-> FALSE, entries |-> <<>>]

\* The loop body without the lookup: every entry is inserted.
ImportOneUnchecked(st, e) ==
    [rows |-> InsertRow(st.rows, st.seq, e), seq |-> NextId(st.rows, st.seq),
     ids |-> st.ids \cup {NextId(st.rows, st.seq)},
     imported |-> st.imported + 1, skipped |-> st.skipped]

\* One turn of the import loop: skip a known hash, else INSERT.
ImportOne(st, e) ==
    IF HashExists(st.rows, e.hash)
    THEN [st EXCEPT !.skipped = @ + 1]
    ELSE [rows |-> InsertRow(st.rows, st.seq, e), seq |-> NextId(st.rows, st.seq),
          ids |-> st.ids \cup {NextId(st.rows, st.seq)},
          imported |-> st.imported + 1, skipped |-> st.skipped]

\* The import loop over the parsed entries, in file order.
RECURSIVE ImportLoop(_, _)
ImportLoop(st, entries) ==
    IF entries = <<>> THEN st
    ELSE ImportLoop(ImportOne(st, Head(entries)), Tail(entries))

\* SELECT ... ORDER BY created_at ASC: the orders the query may return.
OrderedAsc(rs) ==
    {q \in [1..Cardinality(rs) -> rs] :
        /\ \A i, j \in DOMAIN q : i # j => q[i] # q[j]
        /\ \A i, j \in DOMAIN q : i < j => q[i].created_at <= q[j].created_at}

\* The file contents export_to_json may write for the rows rs.
ExportContents(rs) ==
    {[i \in DOMAIN q |-> [ok |-> TRUE, entry |-> entry_from_row(q[i])]] :
        q \in OrderedAsc(rs)}

\* ---------------------------------------------------------------- queries
\* Largest limit a direct caller passes to list_recent and search.
MaxLimit == 2
\* The limit handle_list and handle_search pass.
ListLimit == 256
Limits == (0..MaxLimit) \cup {ListLimit}

\* Entry.text = None: the text column is NULL.
NoText == "NULL"

\* The characters of a text column value.
Chars(x) ==
    CASE x = "hello" -> <<"h", "e", "l", "l", "o">>
      [] x = "Hello" -> <<"H", "e", "l", "l", "o">>
      [] x = "world" -> <<"w", "o", "r", "l", "d">>
      [] x = "bye" -> <<"b", "y", "e">>
      [] OTHER -> <<>>

\* Captured entries the query specification stores.
QueryCaptured == {e \in CapturedEntries : e.text \in {"Hello", "world"}}

\* Entries of the import files the query specification reads: a tagged text
\* entry and an entry without text.
QueryEntries ==
    {Entry(1, "h1", "hello", <<"a", "b">>),
     Entry(MaxTime, "h5", NoText, <<"a">>)}

\* Query strings a caller searches for.
Queries ==
    {<<>>, <<"h", "e", "l", "l", "o">>, <<"o", "r">>, <<"a">>, <<"w", "_", "r">>}

\* LIKE compares letters without regard to ASCII case.
Lower(c) == IF c = "H" THEN "h" ELSE c

\* s LIKE p with SQLite's defaults: % stands for any run of characters, _ for
\* any one character, letters match in either case, and there is no escape.
RECURSIVE Like(_, _)
Like(p, s) ==
    IF p = <<>> THEN s = <<>>
    ELSE IF Head(p) = "%"
         THEN Like(Tail(p), s) \/ (s # <<>> /\ Like(p, Tail(s)))
         ELSE /\ s # <<>>
              /\ Head(p) = "_" \/ Lower(Head(p)) = Lower(Head(s))
              /\ Like(Tail(p), Tail(s))

\* format!("%{}%", query)
search_pattern(query) == <<"%">> \o query \o <<"%">>

\* WHERE with the text column alone.
MatchesTextOnly(r, pat) == r.text # NoText /\ Like(pat, Chars(r.text))

\* WHERE text LIKE ?1 OR tags LIKE ?1; NULL LIKE ?1 is not true.
Matches(r, pat) ==
    \/ r.text # NoText /\ Like(pat, Chars(r.text))
    \/ Like(pat, r.tags)

\* The rows of rs no other row of rs is older than, or newer than.
Oldest(rs) == {r \in rs : \A o \in rs : r.created_at <= o.created_at}
Newest(rs) == {r \in rs : \A o \in rs : r.created_at >= o.created_at}

\* ORDER BY created_at ASC: the oldest rows come first.
RECURSIVE OrderedDescReversed(_)
OrderedDescReversed(rs) ==
    IF rs = {} THEN {<<>>}
    ELSE UNION {{<<r>> \o q : q \in OrderedDescReversed(rs \ {r})} :
                   r \in Oldest(rs)}

\* SELECT ... ORDER BY created_at DESC: the orders the query may return, SQL
\* leaving the order among equal created_at open.
RECURSIVE OrderedDesc(_)
OrderedDesc(rs) ==
    IF rs = {} THEN {<<>>}
    ELSE UNION {{<<r>> \o q : q \in OrderedDesc(rs \ {r})} : r \in Newest(rs)}

\* LIMIT n; the limits passed are below 2^63, where `limit as i64` keeps the
\* value.
Limit(q, n) == SubSeq(q, 1, IF n < Len(q) THEN n ELSE Len(q))

\* query_map(entry_from_row).collect()
Collect(q) == [i \in DOMAIN q |-> entry_from_row(q[i])]

\* list_recent: the results the call may return.
list_recent(rs, limit) ==
    {Collect(Limit(q, limit)) : q \in OrderedDesc(rs)}

\* search: the results the call may return.
search(rs, query, limit) ==
    LET pat == search_pattern(query)
        found == {r \in rs : Matches(r, pat)}
    IN {Collect(Limit(q, limit)) : q \in OrderedDesc(found)}

\* impl From<Entry> for EntrySummary
EntrySummary(e) ==
    [id |-> e.id,
     preview |-> IF e.text = NoText THEN "<non-text entry>" ELSE e.text,
     created_at |-> e.created_at, tags |-> e.tags]

Summaries(es) == [i \in DOMAIN es |-> EntrySummary(es[i])]

\* handle_list: the responses it may build.
handle_list(rs) == {Summaries(es) : es \in list_recent(rs, ListLimit)}

\* handle_search: the responses it may build.
handle_search(rs, query) ==
    {Summaries(es) : es \in IF query = <<>>
                            THEN list_recent(rs, ListLimit)
                            ELSE search(rs, query, ListLimit)}

\* ------------------------------------------------------------ tag calls
\* Entries of the import files the tag specification reads: one with two
\* tags, one whose tag list names a tag twice.
TagEntries ==
    {Entry(1, "h1", "hello", <<"a", "b">>),
     Entry(MaxTime, "h6", "twice", <<"a", "a">>)}

\* Captured entries the tag specification stores.
TagCaptured == {e \in CapturedEntries : e.text = "world"}

\* SELECT tags FROM entries WHERE id = ?1 finds a row.
HasRow(rs, id) == \E r \in rs : r.id = id
RowWithId(rs, id) == CHOOSE r \in rs : r.id = id

\* UPDATE entries SET tags = ?1, with no WHERE: every row gets the tags.
UpdateTagsAll(rs, id, tags_json) ==
    {[r EXCEPT !.tags = tags_json] : r \in rs}

\* UPDATE entries SET tags = ?1 WHERE id = ?2
UpdateTags(rs, id, tags_json) ==
    {IF r.id = id THEN [r EXCEPT !.tags = tags_json] ELSE r : r \in rs}

\* tags.contains(&tag.to_string())
TagsContain(tags, tag) == \E i \in DOMAIN tags : tags[i] = tag

\* The tags column is written without being read: the new tag alone.
add_tag_overwrite(rs, id, tag) ==
    IF ~HasRow(rs, id) THEN [ok |-> FALSE, rows |-> rs]
    ELSE [ok |-> TRUE, rows |-> UpdateTags(rs, id, TagsToJson(<<tag>>))]

\* add_tag: the result and the table it leaves.
add_tag(rs, id, tag) ==
    IF ~HasRow(rs, id) THEN [ok |-> FALSE, rows |-> rs]
    ELSE LET tags == TagsFromJson(RowWithId(rs, id).tags) IN
         IF ~TagsContain(tags, tag)
         THEN [ok |-> TRUE, rows |-> UpdateTags(rs, id, TagsToJson(Append(tags, tag)))]
         ELSE [ok |-> TRUE, rows |-> rs]

\* Only the first occurrence of the tag is removed.
RECURSIVE RemoveFirst(_, _)
RemoveFirst(tags, tag) ==
    IF tags = <<>> THEN <<>>
    ELSE IF Head(tags) = tag THEN Tail(tags)
    ELSE <<Head(tags)>> \o RemoveFirst(Tail(tags), tag)

\* tags.retain(|t| t != tag)
Retain(tags, tag) == SelectSeq(tags, LAMBDA t : t # tag)

\* A row that is not found counts as nothing to remove.
remove_tag_lenient(rs, id, tag) ==
    IF ~HasRow(rs, id) THEN [ok |-> TRUE, rows |-> rs]
    ELSE [ok |-> TRUE,
          rows |-> UpdateTags(rs, id,
                      TagsToJson(Retain(TagsFromJson(RowWithId(rs, id).tags), tag)))]

\* remove_tag: the result and the table it leaves.
remove_tag(rs, id, tag) ==
    IF ~HasRow(rs, id) THEN [ok |-> FALSE, rows |-> rs]
    ELSE [ok |-> TRUE,
          rows |-> UpdateTags(rs, id,
                      TagsToJson(Retain(TagsFromJson(RowWithId(rs, id).tags), tag)))]

NoFile == [exists |-> FALSE, items |-> <<>>]
\* What is recorded of a call: the operation, whether it returned Ok, the path
\* it was given, the rows it persisted, the entries it skipped, the rows it
\* deleted, and whether the file it read holds an element that is no Entry.
Call(op, ok, path, imported, skipped, evicted, bad) ==
    [op |-> op, ok |-> ok, path |-> path, imported |-> imported,
     skipped |-> skipped, evicted |-> evicted, bad |-> bad,
     row |-> "-", same |-> FALSE]
\* What is recorded of a tag call as well: whether its id named a stored row
\* ("found"), a deleted one ("evicted") or none ever ("never"), and whether the
\* tag list it read needed no change.
TagCall(op, ok, row, same) ==
    [Call(op, ok, "-", 0, 0, 0, FALSE) EXCEPT !.row = row, !.same = same]
Known(rs, e) == \E r \in rs : r.hash = e.hash
Malformed(items) == \E i \in DOMAIN items : ~items[i].ok
Session(pc, pending) == [pc |-> pc, pending |-> pending]
\* What is recorded of the entries a step hands back: the call or request, the
\* session it answers (0: a direct caller), the query, the limit, the entries.
Resp(op, to, query, limit, entries) ==
    [op |-> op, to |-> to, query |-> query, limit |-> limit, entries |-> entries]
NoResp == Resp("none", 0, <<>>, 0, <<>>)

\* Ways a session or a connect attempt comes to an end.
Kinds == {"disconnect", "frame", "handler", "connect"}
\* What is recorded of the server's past, when recording is on: the sessions
\* that were connected while another one was closed by a malformed frame, the
\* kinds of ending seen so far, and those seen when a client was last accepted.
Trail(on, peer, seen, came) ==
    [on |-> on, peer |-> peer, seen |-> seen, came |-> came,
     count |-> FALSE,
     owed |-> [s \in Sessions |-> 0]]
\* The same with frame counting on: per session that is connected, the request
\* frames handle_client has read less the response frames it has written; of
\* the endings, the kind of the latest one is kept.
Counting == [Trail(FALSE, {}, {}, {}) EXCEPT !.count = TRUE]

\* The host clipboard: GetClipboardSequenceNumber's value (0: not known) and
\* the data it holds in each format the watcher reads ("none": not present).
Clipboard(sequence, image, rtf, text) ==
    [sequence |-> sequence, image |-> image, rtf |-> rtf, text |-> text]
NoClipboard == Clipboard(0, "none", "none", "none")

\* An Entry as the watcher builds it: kind as well, no tags, no id.
Captured(kind, t, h, x) ==
    [id |-> 0, created_at |-> t, hash |-> h, text |-> x, tags |-> <<>>,
     kind |-> kind]
\* Option::None of an Entry.
None == Captured("none", 0, "none", "none")

\* What is recorded of a tick: whether it read the clipboard, whether it
\* found data it could not read because the clipboard would not open, and the
\* first format, in the watcher's order, the clipboard held.
Tick(read, missed, top) == [read |-> read, missed |-> missed, top |-> top]
\* What is recorded of a forwarded entry: the sequence number it was read
\* under, its kind and hash, and the first format the clipboard held then.
Sent(sequence, kind, h, top) ==
    [sequence |-> sequence, kind |-> kind, hash |-> h, top |-> top]

\* ClipboardWatcher::run before its loop: last_sequence = 0, last_hash = None;
\* entry is the one a pending send holds.
Watcher(pc, last_sequence, last_hash, entry, sent, tick) ==
    [pc |-> pc, last_sequence |-> last_sequence, last_hash |-> last_hash,
     entry |-> entry, sent |-> sent, tick |-> tick]
NewWatcher == Watcher("poll", 0, "none", None, <<>>, Tick(FALSE, FALSE, "none"))

\* clipctl: where App::run is (pc), the requests it has written (asked), the
\* responses the daemon has written for them (answered) and how far it is
\* into writing the next (writing), what lies unread in the pipe, how much of
\* a frame the pending next_message has read (rx, 0: nothing), and the
\* responses its UI has ingested.
Client(pc, asked, answered, writing, pipe, rx, ui) ==
    [pc |-> pc, asked |-> asked, answered |-> answered, writing |-> writing,
     pipe |-> pipe, rx |-> rx, ui |-> ui]
\* clipctl has not been started.
NoClient == Client("off", 0, 0, 0, <<>>, 0, <<>>)

\* The store, the server and main after bootstrap.
InitServer ==
    /\ rows = {}
    /\ seq = 0
    /\ files = [p \in Paths |-> NoFile]
    /\ ingest = "idle"
    /\ sess = [s \in Sessions |-> Session("closed", <<>>)]
    /\ exported = [p \in Paths |-> {}]
    /\ everIds = {}
    /\ last = Call("none", TRUE, "-", 0, 0, 0, FALSE)
    /\ resp = NoResp
    /\ listener = "create"
    /\ daemon = "running"
    /\ client = NoClient

\* The daemon after bootstrap, before any unit has taken a step.
InitProgram ==
    /\ InitServer
    /\ watcher = NewWatcher
    /\ queue = <<>>

InitDaemon == InitProgram /\ clipboard = NoClipboard

Init == InitDaemon /\ trail = Trail(FALSE, {}, {}, {})

\* ------------------------------------------------ calls run to completion
\* insert_entry(entry) by a single caller.
CallInsert(e) ==
    /\ seq < MaxId
    /\ \E st \in insert_entry(rows, seq, e) :
          /\ rows' = st.rows
          /\ seq' = st.seq
    /\ everIds' = IF Known(rows, e) THEN everIds ELSE everIds \cup {seq'}
    /\ last' = IF Known(rows, e)
               THEN Call("insert", TRUE, "-", 0, 1, 0, FALSE)
               ELSE Call("insert", TRUE, "-", 1, 0,
                         Cardinality(rows) + 1 - Cardinality(rows'), FALSE)
    /\ UNCHANGED <<files, exported, ingest, sess>>
    /\ resp' = NoResp
    /\ UNCHANGED <<listener, trail, pipeline>>

\* import_from_json(path) on a file holding items.
CallImport(p, items) ==
    LET parsed == ParseEntries(items)
        st == ImportLoop([rows |-> rows, seq |-> seq, ids |-> {},
                          imported |-> 0, skipped |-> 0], parsed.entries)
    IN /\ st.seq <= MaxId
       /\ IF parsed.ok
          THEN /\ rows' = st.rows
               /\ seq' = st.seq
               /\ everIds' = everIds \cup st.ids
               /\ last' = Call("import", TRUE, p, st.imported, st.skipped, 0,
                               Malformed(items))
          ELSE /\ UNCHANGED <<rows, seq, everIds>>
               /\ last' = Call("import", FALSE, p, 0, 0, 0, Malformed(items))
       /\ UNCHANGED <<files, exported, ingest, sess>>
       /\ resp' = NoResp
       /\ UNCHANGED <<listener, trail, pipeline>>

\* import_from_json(path) when File::open fails.
CallImportMissing(p) ==
    /\ ~files[p].exists
    /\ last' = Call("import", FALSE, p, 0, 0, 0, FALSE)
    /\ UNCHANGED <<rows, seq, files, exported, everIds, ingest, sess>>
    /\ resp' = NoResp
    /\ UNCHANGED <<listener, trail, pipeline>>

\* export_to_json(path).
CallExport(p) ==
    /\ \E items \in ExportContents(rows) :
          files' = [files EXCEPT ![p] = [exists |-> TRUE, items |-> items]]
    /\ exported' = [exported EXCEPT ![p] = rows]
    /\ last' = Call("export", TRUE, p, 0, 0, 0, FALSE)
    /\ UNCHANGED <<rows, seq, everIds, ingest, sess>>
    /\ resp' = NoResp
    /\ UNCHANGED <<listener, trail, pipeline>>

\* Database::open on a new database file: an empty table of the same capacity.
NewDatabase ==
    /\ rows # {}
    /\ rows' = {}
    /\ seq' = 0
    /\ everIds' = {}
    /\ last' = Call("open", TRUE, "-", 0, 0, 0, FALSE)
    /\ UNCHANGED <<files, exported, ingest, sess>>
    /\ resp' = NoResp
    /\ UNCHANGED <<listener, trail, pipeline>>

CallNext ==
    \/ \E e \in CapturedEntries : CallInsert(e)
    \/ \E items \in UserFiles : CallImport("user", items)
    \/ \E p \in Paths : CallImportMissing(p)

\* One caller, every call run to completion before the next.
CallSpec == Init /\ [][CallNext]_vars

InsertNext == \E e \in CapturedEntries : CallInsert(e)

\* A store that only ever sees insert_entry.
InsertSpec == Init /\ [][InsertNext]_vars

NoExportYet == \A p \in Paths : ~files[p].exists

RoundTripNext ==
    \/ NoExportYet /\ \E e \in CapturedEntries : CallInsert(e)
    \/ NoExportYet /\ \E items \in {f \in UserFiles : ~Malformed(f)} :
                          CallImport("user", items)
    \/ \E p \in Paths : CallExport(p)
    \/ ~NoExportYet /\ NewDatabase
    \/ \E p \in Paths : files[p].exists /\ CallImport(p, files[p].items)

\* A store is filled, exported, and the file imported into it or into a new one.
RoundTripSpec == Init /\ [][RoundTripNext]_vars

\* A query is made by a caller that holds no earlier result: what it returns
\* depends on the store alone.
\* list_recent(limit) by a single caller.
CallListRecent(n) ==
    /\ resp = NoResp
    /\ \E es \in list_recent(rows, n) :
          resp' = Resp("list_recent", 0, <<>>, n, es)
    /\ UNCHANGED <<rows, seq, files, ingest, sess, exported, everIds, last,
                   listener, trail, pipeline>>

\* search(query, limit) by a single caller.
CallSearch(query, n) ==
    /\ resp = NoResp
    /\ \E es \in search(rows, query, n) :
          resp' = Resp("search", 0, query, n, es)
    /\ UNCHANGED <<rows, seq, files, ingest, sess, exported, everIds, last,
                   listener, trail, pipeline>>

\* handle_list run to completion.
CallHandleList ==
    /\ resp = NoResp
    /\ \E out \in handle_list(rows) :
          resp' = Resp("List", 0, <<>>, ListLimit, out)
    /\ UNCHANGED <<rows, seq, files, ingest, sess, exported, everIds, last,
                   listener, trail, pipeline>>

\* handle_search(query) run to completion.
CallHandleSearch(query) ==
    /\ resp = NoResp
    /\ \E out \in handle_search(rows, query) :
          resp' = Resp("Search", 0, query, ListLimit, out)
    /\ UNCHANGED <<rows, seq, files, ingest, sess, exported, everIds, last,
                   listener, trail, pipeline>>

\* The caller drops the result it holds.
DropResult ==
    /\ resp # NoResp
    /\ resp' = NoResp
    /\ UNCHANGED <<rows, seq, files, ingest, sess, exported, everIds, last,
                   listener, trail, pipeline>>

QueryNext ==
    \/ \E e \in QueryCaptured : CallInsert(e)
    \/ \E e \in QueryEntries : CallImport("user", <<[ok |-> TRUE, entry |-> e]>>)
    \/ \E n \in Limits : CallListRecent(n)
    \/ \E query \in Queries : \E n \in Limits : CallSearch(query, n)
    \/ CallHandleList
    \/ \E query \in Queries : CallHandleSearch(query)
    \/ DropResult

\* A store is filled by inserts and imports and queried by one caller.
QuerySpec == Init /\ [][QueryNext]_vars

\* What became of the id a tag call names.
RowState(id) ==
    IF \E r \in rows : r.id = id THEN "found"
    ELSE IF id \in everIds THEN "evicted" ELSE "never"
\* The row the id names carries the tag.
Tagged(id, tag) ==
    \E r \in rows : r.id = id /\ \E i \in DOMAIN r.tags : r.tags[i] = tag

\* add_tag(id, tag) by a single caller.
CallAddTag(id, tag) ==
    LET res == add_tag(rows, id, tag) IN
    /\ rows' = res.rows
    /\ last' = TagCall("add_tag", res.ok, RowState(id), Tagged(id, tag))
    /\ resp' = NoResp
    /\ UNCHANGED <<seq, files, ingest, sess, exported, everIds, listener,
                   trail, pipeline>>

\* remove_tag(id, tag) by a single caller.
CallRemoveTag(id, tag) ==
    LET res == remove_tag(rows, id, tag) IN
    /\ rows' = res.rows
    /\ last' = TagCall("remove_tag", res.ok, RowState(id), ~Tagged(id, tag))
    /\ resp' = NoResp
    /\ UNCHANGED <<seq, files, ingest, sess, exported, everIds, listener,
                   trail, pipeline>>

\* Ids a caller names: assigned ones and one that never is.
CallerIds == 1..(MaxId + 1)

TagNext ==
    \/ \E e \in TagCaptured : CallInsert(e)
    \/ \E e \in TagEntries : CallImport("user", <<[ok |-> TRUE, entry |-> e]>>)
    \/ \E id \in CallerIds : \E tag \in Tags : CallAddTag(id, tag)
    \/ \E id \in CallerIds : \E tag \in Tags : CallRemoveTag(id, tag)

\* A store is filled by inserts and imports and its tags are edited.
TagSpec == Init /\ [][TagNext]_vars

\* --------------------------------------------------- the request handlers
\* What a handler returns for a store it found as rs: whether it is Ok, the
\* rows it leaves, and the responses it may give.
\* The list is the one of the store as the handler found it.
ThenListStale(rs, res) ==
    [ok |-> res.ok, rows |-> res.rows,
     out |-> IF res.ok THEN handle_list(rs) ELSE {}]

\* self.db.<call>(..)?; self.handle_list().await: the error of the store call
\* is the handler's, else the recent list of the store the call left.
ThenList(rs, res) ==
    [ok |-> res.ok, rows |-> res.rows,
     out |-> IF res.ok THEN handle_list(res.rows) ELSE {}]

handle_add_tag(rs, id, tag) == ThenList(rs, add_tag(rs, id, tag))
handle_remove_tag(rs, id, tag) == ThenList(rs, remove_tag(rs, id, tag))
\* export_to_json changes no row; created tells whether File::create worked.
handle_export(rs, created) == ThenList(rs, [ok |-> created, rows |-> rs])
\* import_from_json on a file that was opened and holds items.
handle_import(rs, sq, items) ==
    LET parsed == ParseEntries(items)
        st == ImportLoop([rows |-> rs, seq |-> sq, ids |-> {},
                          imported |-> 0, skipped |-> 0], parsed.entries)
        h == ThenList(rs, [ok |-> parsed.ok,
                           rows |-> IF parsed.ok THEN st.rows ELSE rs])
    IN [ok |-> h.ok, rows |-> h.rows, out |-> h.out, st |-> st]

\* The request fails for every id that names no row.
handle_paste_checked(rs, id) ==
    ThenList(rs, [ok |-> HasRow(rs, id), rows |-> rs])

\* handle_paste: the id is logged and handle_list gives the response.
handle_paste(rs, id) == ThenList(rs, [ok |-> TRUE, rows |-> rs])

\* The step of a handler that returned h for a request of kind op: its
\* response is handed to the caller, its error leaves the caller with none.
Returns(op, h) ==
    IF h.ok THEN \E out \in h.out : resp' = Resp(op, 0, <<>>, ListLimit, out)
    ELSE resp' = NoResp

CallHandleAddTag(id, tag) ==
    LET h == handle_add_tag(rows, id, tag) IN
    /\ resp = NoResp
    /\ rows' = h.rows
    /\ last' = TagCall("add_tag", h.ok, RowState(id), Tagged(id, tag))
    /\ Returns("AddTag", h)
    /\ UNCHANGED <<seq, files, ingest, sess, exported, everIds, listener,
                   trail, pipeline>>

CallHandleRemoveTag(id, tag) ==
    LET h == handle_remove_tag(rows, id, tag) IN
    /\ resp = NoResp
    /\ rows' = h.rows
    /\ last' = TagCall("remove_tag", h.ok, RowState(id), ~Tagged(id, tag))
    /\ Returns("RemoveTag", h)
    /\ UNCHANGED <<seq, files, ingest, sess, exported, everIds, listener,
                   trail, pipeline>>

CallHandleExport(p) ==
    \E created \in BOOLEAN :
        LET h == handle_export(rows, created) IN
        /\ resp = NoResp
        /\ IF created
           THEN /\ \E items \in ExportContents(rows) :
                      files' = [files EXCEPT
                                  ![p] = [exists |-> TRUE, items |-> items]]
                /\ exported' = [exported EXCEPT ![p] = rows]
           ELSE UNCHANGED <<files, exported>>
        /\ last' = Call("export", created, p, 0, 0, 0, FALSE)
        /\ Returns("Export", h)
        /\ UNCHANGED <<rows, seq, ingest, sess, everIds, listener, trail, pipeline>>

CallHandleImport(p, items) ==
    LET h == handle_import(rows, seq, items) IN
    /\ resp = NoResp
    /\ h.st.seq <= MaxId
    /\ rows' = h.rows
    /\ seq' = IF h.ok THEN h.st.seq ELSE seq
    /\ everIds' = IF h.ok THEN everIds \cup h.st.ids ELSE everIds
    /\ last' = Call("import", h.ok, p, IF h.ok THEN h.st.imported ELSE 0,
                    IF h.ok THEN h.st.skipped ELSE 0, 0, Malformed(items))
    /\ Returns("Import", h)
    /\ UNCHANGED <<files, ingest, sess, exported, listener, trail, pipeline>>

CallHandlePaste(id) ==
    LET h == handle_paste(rows, id) IN
    /\ resp = NoResp
    /\ last' = TagCall("paste", h.ok, RowState(id), FALSE)
    /\ Returns("Paste", h)
    /\ UNCHANGED <<rows, seq, files, ingest, sess, exported, everIds,
                   listener, trail, pipeline>>

\* Import files a handler is sent: of one entry, tagged or not parsable.
HandlerFiles == {<<i>> : i \in {[ok |-> TRUE, entry |-> e] : e \in TagEntries}
                              \cup {Garbage}}

\* Ids and tags the requests name: the id of the first row and one of none.
ProtocolIds == {1, MaxId + 1}
ProtocolTags == {"a"}

\* The export path is written once.
HandlerNext ==
    \/ \E e \in TagCaptured : CallInsert(e)
    \/ \E id \in ProtocolIds : \E tag \in ProtocolTags :
          CallHandleAddTag(id, tag)
    \/ \E id \in ProtocolIds : \E tag \in ProtocolTags :
          CallHandleRemoveTag(id, tag)
    \/ \E p \in Paths : ~files[p].exists /\ CallHandleExport(p)
    \/ \E items \in HandlerFiles : CallHandleImport("user", items)
    \/ \E id \in ProtocolIds : CallHandlePaste(id)
    \/ CallHandleList
    \/ DropResult

\* One client whose requests are handled one after the other.
HandlerSpec == Init /\ [][HandlerNext]_vars

\* ------------------------------------------ the daemon's concurrent tasks
\* Each action is what one task does while it holds the store lock once.

\* The session's task is running.
Live == {"idle", "import", "export", "list", "search"}

\* A host clipboard call made by the watcher has not returned: the call is
\* made inside the poll of try_join!, and the task makes no further step.
TaskStuck == watcher.pc = "hung"

\* try_join! polls Server::run in the task that runs the ingestion loop: the
\* listener advances only while that loop awaits the next entry, and only
\* when the poll of the watcher has returned.
ListenerRuns == ingest = "idle" /\ ~TaskStuck

\* The history after session s came to an end of this kind.
Ended(s, kind) ==
    IF trail.on
    THEN [trail EXCEPT
            !.seen = @ \cup {kind},
            !.peer = (IF kind = "frame"
                      THEN @ \cup {t \in Sessions : sess[t].pc \in Live}
                      ELSE @) \ {s}]
    ELSE IF trail.count
    THEN [trail EXCEPT !.seen = {kind}, !.owed[s] = 0]
    ELSE trail

\* The history after session s read a request frame, and after it wrote a
\* response frame.
Read(s) ==
    IF trail.count THEN [trail EXCEPT !.owed[s] = @ + 1] ELSE trail
Wrote(s) ==
    IF trail.count THEN [trail EXCEPT !.owed[s] = @ - 1] ELSE trail

\* The error ends every running session.
EndAllSessions(ss, s) ==
    [t \in Sessions |-> IF ss[t].pc \in Live THEN Session("closed", <<>>) ELSE ss[t]]

\* handle_client returns: the session's task ends and its pipe is dropped.
EndSession(ss, s) == [ss EXCEPT ![s] = Session("closed", <<>>)]

\* What each unit of ClipdService::run has come to: the watcher's loop has no
\* exit, the ingestion loop ends with the error of insert_entry, Server::run
\* with the error of create_pipe.
Units(i, l) ==
    [watcher |-> "pending",
     ingestion |-> IF i = "failed" THEN "err" ELSE "pending",
     server |-> IF l = "stopped" THEN "err" ELSE "pending"]

\* Every unit is awaited to its end before the first error is returned.
join_all(u) ==
    IF \E k \in DOMAIN u : u[k] = "pending" THEN "pending"
    ELSE IF \E k \in DOMAIN u : u[k] = "err" THEN "err"
    ELSE "ok"

\* tokio::try_join!: the first Err is returned at once and the other units
\* are dropped; Ok only when every unit has returned Ok.
try_join(u) ==
    IF \E k \in DOMAIN u : u[k] = "err" THEN "err"
    ELSE IF \A k \in DOMAIN u : u[k] = "ok" THEN "ok"
    ELSE "pending"

\* main's select! on service.run(): whatever run returns, main goes on to
\* "clipd shutting down" and returns.
main(d, result) ==
    IF d # "running" THEN d
    ELSE CASE result = "err" -> "failed"
           [] result = "ok" -> "finished"
           [] OTHER -> "running"

\* The error is logged and the loop goes on with the next entry.
insert_error_logged(i) == "idle"

\* db.insert_entry(&entry)?: the error is returned from the ingestion loop.
insert_error(i) == "failed"

\* The error is logged and the loop goes on to the next frame.
Swallowed(ss, s) == ss

\* handle_client, the `?` on read_exact, from_slice and dispatch: the error is
\* returned at once, past the writes of the response.
Failed(ss, s) == EndSession(ss, s)

\* pipe.connect().await?: the error is returned from run.
connect_error_returned(l) == "stopped"

\* Server::run after a failed connect: warn and continue with the loop.
connect_error(l) == "create"

\* service.rs: recv an entry, insert_entry up to drop(conn). The loop is
\* dropped with try_join! once Server::run has returned.
IngestInsert(e) ==
    /\ ingest = "idle"
    /\ ~TaskStuck
    /\ listener # "stopped"
    /\ seq < MaxId
    /\ IF HashExists(rows, e.hash)
       THEN UNCHANGED <<rows, seq, everIds, ingest>>
       ELSE /\ rows' = InsertRow(rows, seq, e)
            /\ seq' = NextId(rows, seq)
            /\ everIds' = everIds \cup {NextId(rows, seq)}
            /\ ingest' = "cleanup"
    /\ UNCHANGED <<files, sess, exported, last>>
    /\ resp' = NoResp
    /\ UNCHANGED <<listener, trail, pipeline>>

\* insert_entry from self.cleanup_old_entries() to its return.
IngestCleanup ==
    /\ ingest = "cleanup"
    /\ ~TaskStuck
    /\ rows' \in cleanup_old_entries(rows)
    /\ ingest' = "idle"
    /\ UNCHANGED <<seq, files, sess, exported, everIds, last>>
    /\ resp' = NoResp
    /\ UNCHANGED <<listener, trail, pipeline>>

\* Server::run: create_pipe succeeds, the listener awaits a client.
CreatePipe ==
    /\ listener = "create"
    /\ ListenerRuns
    /\ listener' = "connect"
    /\ UNCHANGED pipeline
    /\ resp' = NoResp
    /\ UNCHANGED <<rows, seq, files, ingest, sess, exported, everIds, last, trail>>

\* Server::run: create_pipe fails and run returns the error.
CreatePipeFails ==
    /\ listener = "create"
    /\ ListenerRuns
    /\ listener' = "stopped"
    /\ daemon' = main(daemon, try_join(Units(ingest, "stopped")))
    /\ UNCHANGED <<clipboard, watcher, queue>>
    /\ resp' = NoResp
    /\ UNCHANGED client
    /\ UNCHANGED <<rows, seq, files, ingest, sess, exported, everIds, last, trail>>

\* Server::run: pipe.connect() fails.
ConnectFails ==
    /\ listener = "connect"
    /\ ListenerRuns
    /\ listener' = connect_error(listener)
    /\ UNCHANGED pipeline
    /\ trail' = IF trail.on THEN [trail EXCEPT !.seen = @ \cup {"connect"}] ELSE trail
    /\ resp' = NoResp
    /\ UNCHANGED <<rows, seq, files, ingest, sess, exported, everIds, last>>

\* Server::run: a client connects, a session is spawned, the loop starts over.
Accept(s) ==
    /\ listener = "connect"
    /\ ListenerRuns
    /\ sess[s].pc = "closed"
    /\ sess' = [sess EXCEPT ![s] = Session("idle", <<>>)]
    /\ listener' = "create"
    /\ UNCHANGED pipeline
    /\ trail' = IF trail.on THEN [trail EXCEPT !.came = trail.seen] ELSE trail
    /\ UNCHANGED <<rows, seq, files, ingest, exported, everIds, last>>
    /\ resp' = NoResp

\* handle_client: read_u32_le fails, the peer is gone.
Disconnect(s) ==
    /\ sess[s].pc = "idle"
    /\ sess' = EndSession(sess, s)
    /\ trail' = Ended(s, "disconnect")
    /\ UNCHANGED <<rows, seq, files, ingest, exported, everIds, last>>
    /\ resp' = NoResp
    /\ UNCHANGED <<listener, pipeline>>

\* handle_client: the payload read is no Request, from_slice fails.
BadFrame(s) ==
    /\ sess[s].pc = "idle"
    /\ sess' = Failed(sess, s)
    /\ trail' = Ended(s, "frame")
    /\ UNCHANGED <<rows, seq, files, ingest, exported, everIds, last>>
    /\ resp' = NoResp
    /\ UNCHANGED <<listener, pipeline>>

\* dispatch of List: handle_list is all there is to do.
ReqList(s) ==
    /\ sess[s].pc = "idle"
    /\ sess' = [sess EXCEPT ![s] = Session("list", <<>>)]
    /\ trail' = Read(s)
    /\ UNCHANGED <<rows, seq, files, ingest, exported, everIds, last>>
    /\ resp' = NoResp
    /\ UNCHANGED <<listener, pipeline>>

\* dispatch of Import: import_from_json opens and parses the file; a file
\* that does not parse fails the request and with it the session.
ReqImport(s, items) ==
    LET parsed == ParseEntries(items) IN
    /\ sess[s].pc = "idle"
    /\ sess' = IF ~parsed.ok THEN Failed(sess, s)
               ELSE [sess EXCEPT ![s] =
                       IF parsed.entries = <<>> THEN Session("list", <<>>)
                       ELSE Session("import", parsed.entries)]
    /\ trail' = IF ~parsed.ok THEN Ended(s, "handler") ELSE Read(s)
    /\ UNCHANGED <<rows, seq, files, ingest, exported, everIds, last>>
    /\ resp' = NoResp
    /\ UNCHANGED <<listener, pipeline>>

\* One turn of import_from_json's loop, from conn.lock() to drop(conn).
ImportStep(s) ==
    LET st == ImportOne([rows |-> rows, seq |-> seq, ids |-> {},
                         imported |-> 0, skipped |-> 0], Head(sess[s].pending))
        rest == Tail(sess[s].pending)
    IN /\ sess[s].pc = "import"
       /\ st.seq <= MaxId
       /\ rows' = st.rows
       /\ seq' = st.seq
       /\ everIds' = everIds \cup st.ids
       /\ sess' = [sess EXCEPT ![s] =
                     IF rest = <<>> THEN Session("list", <<>>) ELSE Session("import", rest)]
       /\ UNCHANGED <<files, ingest, exported, last>>
       /\ resp' = NoResp
       /\ UNCHANGED <<listener, trail, pipeline>>

\* The response is written and the session stays where it is.
WrittenAgain(ss, s) == ss

\* handle_client after flush: the loop starts over with the next read.
Written(ss, s) == [ss EXCEPT ![s] = Session("idle", <<>>)]

\* handle_list: list_recent(256) under the lock, then the response is written.
Respond(s) ==
    /\ sess[s].pc = "list"
    /\ sess' = Written(sess, s)
    /\ \E out \in handle_list(rows) :
          resp' = Resp("List", s, <<>>, ListLimit, out)
    /\ trail' = Wrote(s)
    /\ UNCHANGED <<rows, seq, files, ingest, exported, everIds, last>>
    /\ UNCHANGED <<listener, pipeline>>

\* dispatch of Search: the query is handed to handle_search.
ReqSearch(s, query) ==
    /\ sess[s].pc = "idle"
    /\ sess' = [sess EXCEPT ![s] = Session("search", query)]
    /\ trail' = Read(s)
    /\ UNCHANGED <<rows, seq, files, ingest, exported, everIds, last>>
    /\ resp' = NoResp
    /\ UNCHANGED <<listener, pipeline>>

\* handle_search: the query under the lock, then the response is written.
RespondSearch(s) ==
    /\ sess[s].pc = "search"
    /\ sess' = Written(sess, s)
    /\ \E out \in handle_search(rows, sess[s].pending) :
          resp' = Resp("Search", s, sess[s].pending, ListLimit, out)
    /\ trail' = Wrote(s)
    /\ UNCHANGED <<rows, seq, files, ingest, exported, everIds, last>>
    /\ UNCHANGED <<listener, pipeline>>

\* dispatch of Paste: handle_paste goes on to handle_list; a handler that
\* has no response to give fails the request and with it the session.
ReqPaste(s, id) ==
    LET ok == handle_paste(rows, id).ok IN
    /\ sess[s].pc = "idle"
    /\ sess' = IF ok THEN [sess EXCEPT ![s] = Session("list", <<>>)]
               ELSE Failed(sess, s)
    /\ trail' = IF ok THEN Read(s) ELSE Ended(s, "handler")
    /\ UNCHANGED <<rows, seq, files, ingest, exported, everIds, last>>
    /\ resp' = NoResp
    /\ UNCHANGED <<listener, pipeline>>

\* dispatch of AddTag: add_tag under the lock; its error fails the request
\* and with it the session, else handle_list follows.
ReqAddTag(s, id, tag) ==
    LET res == add_tag(rows, id, tag) IN
    /\ sess[s].pc = "idle"
    /\ rows' = res.rows
    /\ sess' = IF res.ok THEN [sess EXCEPT ![s] = Session("list", <<>>)]
               ELSE Failed(sess, s)
    /\ trail' = IF res.ok THEN Read(s) ELSE Ended(s, "handler")
    /\ UNCHANGED <<seq, files, ingest, exported, everIds, last>>
    /\ resp' = NoResp
    /\ UNCHANGED <<listener, pipeline>>

\* dispatch of RemoveTag: remove_tag under the lock, then as for AddTag.
ReqRemoveTag(s, id, tag) ==
    LET res == remove_tag(rows, id, tag) IN
    /\ sess[s].pc = "idle"
    /\ rows' = res.rows
    /\ sess' = IF res.ok THEN [sess EXCEPT ![s] = Session("list", <<>>)]
               ELSE Failed(sess, s)
    /\ trail' = IF res.ok THEN Read(s) ELSE Ended(s, "handler")
    /\ UNCHANGED <<seq, files, ingest, exported, everIds, last>>
    /\ resp' = NoResp
    /\ UNCHANGED <<listener, pipeline>>

\* dispatch of Export: export_to_json reads the rows under the lock and
\* writes the file, then handle_list follows.
ReqExport(s, p) ==
    /\ sess[s].pc = "idle"
    /\ \E items \in ExportContents(rows) :
          files' = [files EXCEPT ![p] = [exists |-> TRUE, items |-> items]]
    /\ exported' = [exported EXCEPT ![p] = rows]
    /\ sess' = [sess EXCEPT ![s] = Session("list", <<>>)]
    /\ trail' = Read(s)
    /\ UNCHANGED <<rows, seq, ingest, everIds, last>>
    /\ resp' = NoResp
    /\ UNCHANGED <<listener, pipeline>>

\* dispatch of Export when File::create fails: the request fails and with it
\* the session.
ReqExportFails(s, p) ==
    /\ sess[s].pc = "idle"
    /\ sess' = Failed(sess, s)
    /\ trail' = Ended(s, "handler")
    /\ UNCHANGED <<rows, seq, files, ingest, exported, everIds, last>>
    /\ resp' = NoResp
    /\ UNCHANGED <<listener, pipeline>>

\* dispatch of Import when File::open fails: the same.
ReqImportMissing(s, p) ==
    /\ sess[s].pc = "idle"
    /\ ~files[p].exists
    /\ sess' = Failed(sess, s)
    /\ trail' = Ended(s, "handler")
    /\ UNCHANGED <<rows, seq, files, ingest, exported, everIds, last>>
    /\ resp' = NoResp
    /\ UNCHANGED <<listener, pipeline>>

\* A session inside export_to_json after drop(conn): the entries it collected
\* and the path it was asked to write.
Exporting(p, items) == [pc |-> "export", pending |-> items, path |-> p]

\* The file is written from the rows the store holds when it is written.
written_now(ss, s, rs) == CHOOSE items \in ExportContents(rs) : TRUE

\* serde_json::to_writer_pretty(writer, &entries): what is written is the
\* vector collected under the lock.
written(ss, s, rs) == ss[s].pending

\* dispatch of Export, export_to_json from conn.lock() to drop(conn): the
\* rows are read, oldest first, and the lock is released.
ExportSelect(s, p) ==
    /\ sess[s].pc = "idle"
    /\ \E items \in ExportContents(rows) :
          sess' = [sess EXCEPT ![s] = Exporting(p, items)]
    /\ exported' = [exported EXCEPT ![p] = rows]
    /\ trail' = Read(s)
    /\ UNCHANGED <<rows, seq, files, ingest, everIds, last>>
    /\ resp' = NoResp
    /\ UNCHANGED <<listener, pipeline>>

\* export_to_json from File::create to its return: the file is created and
\* written without the lock, then handle_list follows.
ExportWrite(s) ==
    /\ sess[s].pc = "export"
    /\ files' = [files EXCEPT ![sess[s].path] =
                    [exists |-> TRUE, items |-> written(sess, s, rows)]]
    /\ sess' = [sess EXCEPT ![s] = Session("list", <<>>)]
    /\ UNCHANGED <<rows, seq, ingest, exported, everIds, last>>
    /\ resp' = NoResp
    /\ UNCHANGED <<listener, trail, pipeline>>

\* export_to_json: File::create fails after the rows were read.
ExportWriteFails(s) ==
    /\ sess[s].pc = "export"
    /\ sess' = Failed(sess, s)
    /\ trail' = Ended(s, "handler")
    /\ UNCHANGED <<rows, seq, files, ingest, exported, everIds, last>>
    /\ resp' = NoResp
    /\ UNCHANGED <<listener, pipeline>>

\* handle_client: the response is at hand and a write to the pipe fails.
WriteFails(s) ==
    /\ sess[s].pc \in {"list", "search"}
    /\ sess' = EndSession(sess, s)
    /\ trail' = Ended(s, "write")
    /\ UNCHANGED <<rows, seq, files, ingest, exported, everIds, last>>
    /\ resp' = NoResp
    /\ UNCHANGED <<listener, pipeline>>

Next ==
    \/ \E e \in CapturedEntries : IngestInsert(e)
    \/ IngestCleanup
    \/ CreatePipe
    \/ CreatePipeFails
    \/ ConnectFails
    \/ \E s \in Sessions : Accept(s)
    \/ \E s \in Sessions : Disconnect(s)
    \/ \E s \in Sessions : BadFrame(s)
    \/ \E s \in Sessions : ReqList(s)
    \/ \E s \in Sessions : \E items \in SessionFiles : ReqImport(s, items)
    \/ \E s \in Sessions : ImportStep(s)
    \/ \E s \in Sessions : Respond(s)

Spec == Init /\ [][Next]_vars

\* Captured entries the server specification stores.
ServerCaptured == {e \in CapturedEntries : e.text = "world"}

ServerInit == InitDaemon /\ trail = Trail(TRUE, {}, {}, {})

ServerNext ==
    \/ \E e \in ServerCaptured : IngestInsert(e)
    \/ IngestCleanup
    \/ CreatePipe
    \/ CreatePipeFails
    \/ ConnectFails
    \/ \E s \in Sessions : Accept(s)
    \/ \E s \in Sessions : Disconnect(s)
    \/ \E s \in Sessions : BadFrame(s)
    \/ \E s \in Sessions : ReqList(s)
    \/ \E s \in Sessions : \E items \in SessionFiles : ReqImport(s, items)
    \/ \E s \in Sessions : ImportStep(s)
    \/ \E s \in Sessions : Respond(s)

\* The listener and its sessions, with the history of their endings recorded.
ServerSpec == ServerInit /\ [][ServerNext]_vars

\* --------------------------------------------------------- the watcher
\* Data the clipboard may hold in each format.
Images == {"none", "dib"}
Rtfs == {"none", "rtf"}
ClipTexts == {"none", "hello", "world"}
\* when the watcher reads its clock
WatcherTimes == {MaxTime}

\* The first format, in the watcher's order, the clipboard holds.
Top(cb) ==
    IF cb.image # "none" THEN "Image"
    ELSE IF cb.rtf # "none" THEN "Rtf"
    ELSE IF cb.text # "none" THEN "Text"
    ELSE "none"

\* read_clipboard_image: None unless CF_DIB is available and OpenClipboard
\* succeeds (opened); the text is a placeholder naming the size.
read_clipboard_image(cb, opened, t) ==
    IF cb.image = "none" \/ ~opened THEN None
    ELSE Captured("Image", t, hash_data(cb.image), "<image>")

\* read_clipboard_rtf: the same for the Rich Text Format.
read_clipboard_rtf(cb, opened, t) ==
    IF cb.rtf = "none" \/ ~opened THEN None
    ELSE Captured("Rtf", t, hash_data(cb.rtf), "<rtf>")

\* read_clipboard_text and the closure of run that makes an Entry of it: None
\* when OpenClipboard fails or GetClipboardData has no CF_UNICODETEXT.
read_clipboard_text(cb, opened, t) ==
    IF cb.text = "none" \/ ~opened THEN None
    ELSE Captured("Text", t, hash_data(cb.text), cb.text)

\* Whether each of the three OpenClipboard calls of a tick succeeds.
Opens == [{"Image", "Rtf", "Text"} -> BOOLEAN]

\* run: image.or_else(rtf).or_else(text), each read opening the clipboard
\* anew.
entry_opt(cb, o, t) ==
    LET image == read_clipboard_image(cb, o["Image"], t)
        rtf == read_clipboard_rtf(cb, o["Rtf"], t)
    IN IF image # None THEN image
       ELSE IF rtf # None THEN rtf
       ELSE read_clipboard_text(cb, o["Text"], t)

\* try_join! polls the watcher in the task that runs the ingestion loop: it
\* advances only while that loop awaits the next entry.
WatcherRuns == ingest # "cleanup"

\* The clipboard is read on every tick that finds a sequence number.
changed_or_not(current, last_sequence) == current # 0

\* run: current_sequence != last_sequence && current_sequence != 0.
changed(current, last_sequence) == current # last_sequence /\ current # 0

\* The entry is dropped when its hash was forwarded at any time before.
is_repeat_of_any(w, h) == \E i \in DOMAIN w.sent : w.sent[i].hash = h

\* run: Some(&entry.hash) == last_hash.as_ref(), the entry is skipped.
is_repeat(w, h) == w.last_hash = h

\* One turn of run's loop up to the send or the sleep: the sequence number is
\* compared and remembered, the clipboard is read, and an entry whose hash is
\* not the last one is made ready to send.
Poll(o, t) ==
    LET current == clipboard.sequence
        e == entry_opt(clipboard, o, t)
    IN /\ daemon = "running"
       /\ WatcherRuns
       /\ watcher.pc = "poll"
       /\ watcher' =
            IF ~changed(current, watcher.last_sequence)
            THEN [watcher EXCEPT !.tick = Tick(FALSE, FALSE, Top(clipboard))]
            ELSE IF e = None
            THEN [watcher EXCEPT
                    !.last_sequence = current,
                    !.tick = Tick(TRUE, Top(clipboard) # "none", Top(clipboard))]
            ELSE IF is_repeat(watcher, e.hash)
            THEN [watcher EXCEPT
                    !.last_sequence = current,
                    !.tick = Tick(TRUE, FALSE, Top(clipboard))]
            ELSE [watcher EXCEPT
                    !.last_sequence = current,
                    !.last_hash = e.hash,
                    !.pc = "send",
                    !.entry = e,
                    !.tick = Tick(TRUE, FALSE, Top(clipboard))]
       /\ resp' = NoResp
       /\ UNCHANGED client
       /\ UNCHANGED <<rows, seq, files, ingest, sess, exported, everIds, last,
                      listener, trail, clipboard, queue, daemon>>

\* One turn of run's loop in which a clipboard call does not return:
\* OpenClipboard and GetClipboardData are called on the task itself, after
\* last_sequence is set.
PollHangs ==
    /\ daemon = "running"
    /\ WatcherRuns
    /\ watcher.pc = "poll"
    /\ changed(clipboard.sequence, watcher.last_sequence)
    /\ watcher' = [watcher EXCEPT
                     !.pc = "hung",
                     !.last_sequence = clipboard.sequence,
                     !.tick = Tick(TRUE, TRUE, Top(clipboard))]
    /\ resp' = NoResp
    /\ UNCHANGED client
    /\ UNCHANGED <<rows, seq, files, ingest, sess, exported, everIds, last,
                   listener, trail, clipboard, queue, daemon>>

\* mpsc::channel::<Entry>(256) in ClipdService::run.
channel_capacity == 256

\* An unbounded channel: a send never waits.
has_capacity_always(q) == TRUE

\* The channel's semaphore has a permit left: send completes without waiting.
has_capacity(q) == Len(q) < channel_capacity

\* tx.send(entry).await completes: the entry is in the channel, the watcher
\* sleeps and polls again.
Send ==
    /\ daemon = "running"
    /\ WatcherRuns
    /\ watcher.pc = "send"
    /\ has_capacity(queue)
    /\ queue' = Append(queue, watcher.entry)
    /\ watcher' = [watcher EXCEPT
                     !.pc = "poll",
                     !.entry = None,
                     !.sent = Append(@, Sent(watcher.last_sequence,
                                             watcher.entry.kind,
                                             watcher.entry.hash,
                                             watcher.tick.top))]
    /\ resp' = NoResp
    /\ UNCHANGED client
    /\ UNCHANGED <<rows, seq, files, ingest, sess, exported, everIds, last,
                   listener, trail, clipboard, daemon>>

\* Another application puts data on the clipboard, or empties it: the
\* sequence number goes up by one.
CopyBelow(limit, image, rtf, text) ==
    /\ clipboard.sequence < limit
    /\ clipboard' = Clipboard(clipboard.sequence + 1, image, rtf, text)
    /\ resp' = NoResp
    /\ UNCHANGED client
    /\ UNCHANGED <<rows, seq, files, ingest, sess, exported, everIds, last,
                   listener, trail, watcher, queue, daemon>>

Copy(image, rtf, text) == CopyBelow(MaxSequence, image, rtf, text)

\* The clipboard when the daemon starts: its sequence number not known, or
\* known with whatever was copied last.
WatcherInit ==
    /\ InitProgram
    /\ trail = Trail(FALSE, {}, {}, {})
    /\ \E n \in {0, 1} : \E image \in Images : \E rtf \in Rtfs :
          \E text \in ClipTexts : clipboard = Clipboard(n, image, rtf, text)

WatcherNext ==
    \/ \E o \in Opens : \E t \in WatcherTimes : Poll(o, t)
    \/ Send
    \/ \E image \in Images : \E rtf \in Rtfs : \E text \in ClipTexts :
          Copy(image, rtf, text)

\* The watcher and the applications that use the clipboard.
WatcherSpec == WatcherInit /\ [][WatcherNext]_vars

\* ------------------------------------------------------- the whole daemon
\* The channel hands over the entry sent last.
recv_newest(q) == q[Len(q)]

\* entry_rx.recv(): the entry that has been in the channel longest.
recv(q) == Head(q)

\* service.rs: recv hands over the oldest entry of the channel, insert_entry
\* runs up to drop(conn).
IngestRecv ==
    LET e == recv(queue) IN
    /\ ingest = "idle"
    /\ ~TaskStuck
    /\ queue # <<>>
    /\ seq < MaxId
    /\ queue' = Tail(queue)
    /\ IF HashExists(rows, e.hash)
       THEN UNCHANGED <<rows, seq, everIds, ingest>>
       ELSE /\ rows' = InsertRow(rows, seq, e)
            /\ seq' = NextId(rows, seq)
            /\ everIds' = everIds \cup {NextId(rows, seq)}
            /\ ingest' = "cleanup"
    /\ resp' = NoResp
    /\ UNCHANGED client
    /\ UNCHANGED <<files, sess, exported, last, listener, trail, clipboard,
                   watcher, daemon>>

\* service.rs: recv hands over an entry and a statement of insert_entry fails
\* before the row is written.
IngestRecvFails ==
    /\ ingest = "idle"
    /\ ~TaskStuck
    /\ queue # <<>>
    /\ queue' = Tail(queue)
    /\ ingest' = insert_error(ingest)
    /\ daemon' = main(daemon, try_join(Units(ingest', listener)))
    /\ resp' = NoResp
    /\ UNCHANGED client
    /\ UNCHANGED <<rows, seq, files, sess, exported, everIds, last, listener,
                   trail, clipboard, watcher>>

\* insert_entry: the row is written and cleanup_old_entries fails.
IngestCleanupFails ==
    /\ ingest = "cleanup"
    /\ ~TaskStuck
    /\ ingest' = insert_error(ingest)
    /\ daemon' = main(daemon, try_join(Units(ingest', listener)))
    /\ resp' = NoResp
    /\ UNCHANGED client
    /\ UNCHANGED <<rows, seq, files, sess, exported, everIds, last, listener,
                   trail, clipboard, watcher, queue>>

\* main's select!: ctrl_c completes first. The select! is polled by the
\* task that polls run.
Signal ==
    /\ daemon = "running"
    /\ ~TaskStuck
    /\ daemon' = "signalled"
    /\ resp' = NoResp
    /\ UNCHANGED client
    /\ UNCHANGED <<rows, seq, files, ingest, sess, exported, everIds, last,
                   listener, trail, clipboard, watcher, queue>>

\* main has not returned: the runtime polls the units and the sessions.
Up == daemon = "running"

\* Every OpenClipboard call succeeds.
AllOpen == [f \in {"Image", "Rtf", "Text"} |-> TRUE]

DaemonNext ==
    \/ \E text \in ClipTexts : Copy("none", "none", text)
    \/ \E t \in WatcherTimes : Poll(AllOpen, t)
    \/ Send
    \/ Up /\ IngestRecv
    \/ Up /\ IngestRecvFails
    \/ Up /\ IngestCleanup
    \/ Up /\ IngestCleanupFails
    \/ Up /\ CreatePipe
    \/ Up /\ CreatePipeFails
    \/ Up /\ ConnectFails
    \/ \E s \in Sessions : Up /\ Accept(s)
    \/ \E s \in Sessions : Up /\ Disconnect(s)
    \/ \E s \in Sessions : Up /\ ReqList(s)
    \/ \E s \in Sessions : Up /\ Respond(s)
    \/ Signal

\* The three units of ClipdService::run, the sessions, and main.
DaemonSpec == Init /\ [][DaemonNext]_vars

\* The runtime polls run for as long as main awaits it: an entry in the
\* channel wakes the ingestion loop, and insert_entry, once called, runs on
\* to its end.
FairDaemonSpec ==
    /\ DaemonSpec
    /\ WF_vars(Up /\ IngestRecv)
    /\ WF_vars(Up /\ IngestCleanup)

\* ------------------------------------------------------------ the client
\* Requests the client writes in one run, the initial List among them.
MaxFrames == 3

\* What the daemon's session puts into the pipe for the k-th response:
\* write_u32_le the length prefix ("len"), write_all the payload, which the
\* pipe takes whole ("end") or in two pieces ("body", then "end").
Token(frame, part) == [frame |-> frame, part |-> part]

\* The daemon's variables, which no step of the client touches.
daemon_side ==
    <<rows, seq, files, ingest, sess, exported, everIds, last, listener, trail,
      clipboard, watcher, queue, daemon>>

\* One poll of the future of Client::next_message: read_u32_le takes the next
\* four bytes as the length, read_exact then takes that many bytes as the
\* payload, and the future is pending where bytes are missing (rx: 1 with
\* the prefix read, 2 with part of the payload read as well). Four bytes that
\* are not a length prefix put the client out of step with the daemon.
RECURSIVE next_message(_)
next_message(c) ==
    IF c.pipe = <<>> THEN c
    ELSE LET t == Head(c.pipe) IN
         IF (c.rx = 0) # (t.part = "len")
         THEN [c EXCEPT !.pc = "desync", !.pipe = Tail(@)]
         ELSE IF t.part = "len"
         THEN next_message([c EXCEPT !.rx = 1, !.pipe = Tail(@)])
         ELSE IF t.part = "body"
         THEN next_message([c EXCEPT !.rx = 2, !.pipe = Tail(@)])
         ELSE [c EXCEPT !.ui = Append(@, t.frame), !.rx = 0, !.pipe = Tail(@)]

\* select! drops the futures of the branches that did not complete, and the
\* loop makes a new next_message future: what the old one had read is gone.
cancelled(rx) == 0

\* App::run: Client::connect, and the initial List request is sent.
Connect ==
    /\ client = NoClient
    /\ client' = Client("initial", 1, 0, 0, <<>>, 0, <<>>)
    /\ resp' = NoResp
    /\ UNCHANGED daemon_side

\* handle_client: write_u32_le of the next response's length.
WriteLen ==
    /\ client.pc \in {"initial", "run"}
    /\ client.writing = 0
    /\ client.answered < client.asked
    /\ client' = [client EXCEPT
                    !.writing = 1,
                    !.pipe = Append(@, Token(client.answered + 1, "len"))]
    /\ resp' = NoResp
    /\ UNCHANGED daemon_side

\* handle_client: write_all hands the pipe the payload, all that is left of
\* it (whole) or a first piece; flush follows the last piece.
WritePayload(whole) ==
    /\ client.pc \in {"initial", "run"}
    /\ client.writing \in {1, 2}
    /\ ~whole => client.writing = 1
    /\ client' = [client EXCEPT
                    !.writing = IF whole THEN 0 ELSE 2,
                    !.answered = IF whole THEN @ + 1 ELSE @,
                    !.pipe = Append(@, Token(client.answered + 1,
                                             IF whole THEN "end" ELSE "body"))]
    /\ resp' = NoResp
    /\ UNCHANGED daemon_side

\* App::run: next_message is polled, before the loop (the initial response,
\* awaited on its own) or as a branch of select!; a response that is complete
\* is ingested by the UI.
Receive ==
    LET c == next_message(client) IN
    /\ client.pc \in {"initial", "run"}
    /\ client.pipe # <<>>
    /\ client' = IF c.pc = "initial" /\ c.ui # <<>>
                 THEN [c EXCEPT !.pc = "run"]
                 ELSE c
    /\ resp' = NoResp
    /\ UNCHANGED daemon_side

\* select!: the redraw tick completes first.
TickWins ==
    /\ client.pc = "run"
    /\ client' = [client EXCEPT !.rx = cancelled(@)]
    /\ resp' = NoResp
    /\ UNCHANGED daemon_side

\* select!: an input event completes first; handle_event may ask for a
\* request to be sent, and may ask to exit.
EventWins(request, should_exit) ==
    /\ client.pc = "run"
    /\ request => client.asked < MaxFrames
    /\ client' = [client EXCEPT
                    !.rx = cancelled(@),
                    !.asked = IF request THEN @ + 1 ELSE @,
                    !.pc = IF should_exit THEN "exit" ELSE @]
    /\ resp' = NoResp
    /\ UNCHANGED daemon_side

ClientNext ==
    \/ Connect
    \/ WriteLen
    \/ \E whole \in BOOLEAN : WritePayload(whole)
    \/ Receive
    \/ TickWins
    \/ \E request \in BOOLEAN : \E should_exit \in BOOLEAN :
          EventWins(request, should_exit)

\* clipctl's event loop and the session that answers it.
ClientSpec == Init /\ [][ClientNext]_vars

\* ------------------------------------------------------ a channel near full
\* The entries forwarded and not yet received when the channel has room for
\* two more.
Backlog == channel_capacity - 2

\* What was copied the i-th time: two texts in turn, so that no entry has the
\* hash of the one before it.
BacklogText(i) == IF i % 2 = 1 THEN "hello" ELSE "world"
BacklogEntry(i) ==
    Captured("Text", MaxTime, hash_data(BacklogText(i)), BacklogText(i))

\* The daemon after Backlog copies were forwarded, each on its own tick,
\* while the ingestion loop has not yet received any of them.
BacklogInit ==
    /\ InitServer
    /\ trail = Trail(FALSE, {}, {}, {})
    /\ clipboard = Clipboard(Backlog, "none", "none", BacklogText(Backlog))
    /\ queue = [i \in 1..Backlog |-> BacklogEntry(i)]
    /\ watcher = Watcher("poll", Backlog, hash_data(BacklogText(Backlog)), None,
                         [i \in 1..Backlog |->
                             Sent(i, "Text", hash_data(BacklogText(i)), "Text")],
                         Tick(TRUE, FALSE, "Text"))

BacklogNext ==
    \/ \E text \in ClipTexts : CopyBelow(Backlog + MaxSequence, "none", "none", text)
    \/ \E t \in WatcherTimes : Poll(AllOpen, t)
    \/ Send
    \/ IngestRecv
    \/ IngestCleanup

\* The watcher, the channel and the ingestion loop from a channel near full.
BacklogSpec == BacklogInit /\ [][BacklogNext]_vars

\* The daemon on a host whose clipboard calls may fail to return.
HangNext ==
    \/ DaemonNext
    \/ PollHangs

HangSpec == Init /\ [][HangNext]_vars

\* The query the protocol specification sends, and its import files.
ProtocolQueries == {<<"o", "r">>}
ProtocolFiles == {f \in SessionFiles : Len(f) <= 1}
\* The captured entry the protocol specification stores.
ProtocolCaptured == {e \in ServerCaptured : e.created_at = MaxTime}

ProtocolInit == InitDaemon /\ trail = Counting

ProtocolNext ==
    \/ \E e \in ProtocolCaptured : IngestInsert(e)
    \/ IngestCleanup
    \/ CreatePipe
    \/ ConnectFails
    \/ \E s \in Sessions : Accept(s)
    \/ \E s \in Sessions : Disconnect(s)
    \/ \E s \in Sessions : BadFrame(s)
    \/ \E s \in Sessions : ReqList(s)
    \/ \E s \in Sessions : \E query \in ProtocolQueries : ReqSearch(s, query)
    \/ \E s \in Sessions : \E id \in ProtocolIds : ReqPaste(s, id)
    \/ \E s \in Sessions : \E id \in ProtocolIds : \E tag \in ProtocolTags :
          ReqAddTag(s, id, tag)
    \/ \E s \in Sessions : \E id \in ProtocolIds : \E tag \in ProtocolTags :
          ReqRemoveTag(s, id, tag)
    \/ \E s \in Sessions : \E p \in Paths : ReqExport(s, p)
    \/ \E s \in Sessions : \E p \in Paths : ReqExportFails(s, p)
    \/ \E s \in Sessions : \E items \in ProtocolFiles : ReqImport(s, items)
    \/ \E s \in Sessions : \E p \in Paths : ReqImportMissing(s, p)
    \/ \E s \in Sessions : ImportStep(s)
    \/ \E s \in Sessions : Respond(s)
    \/ \E s \in Sessions : RespondSearch(s)
    \/ \E s \in Sessions : WriteFails(s)

\* The sessions with every kind of request, their frames counted.
ProtocolSpec == ProtocolInit /\ [][ProtocolNext]_vars

\* ------------------------------------------- export and import, lock by lock
LockNext ==
    \/ \E e \in ProtocolCaptured : IngestInsert(e)
    \/ IngestCleanup
    \/ CreatePipe
    \/ \E s \in Sessions : Accept(s)
    \/ \E s \in Sessions : Disconnect(s)
    \/ \E s \in Sessions : \E p \in Paths : ~files[p].exists /\ ExportSelect(s, p)
    \/ \E s \in Sessions : ExportWrite(s)
    \/ \E s \in Sessions : ExportWriteFails(s)
    \/ \E s \in Sessions : \E items \in SessionFiles : ReqImport(s, items)
    \/ \E s \in Sessions : ImportStep(s)
    \/ \E s \in Sessions : Respond(s)

\* Sessions that export and import while the ingestion loop inserts; the
\* export path is written once.
LockSpec == Init /\ [][LockNext]_vars

\* ------------------------------------------- requests next to the eviction
\* What the ingestion loop receives: three contents, captured at one time.
LifecycleCaptured == {e \in CapturedEntries : e.created_at = MaxTime}

\* One client is enough: the requests are weighed against the ingestion loop.
LifecycleSessions == {1}

LifecycleNext ==
    \/ \E e \in LifecycleCaptured : IngestInsert(e)
    \/ IngestCleanup
    \/ CreatePipe
    \/ \E s \in LifecycleSessions : Accept(s)
    \/ \E s \in LifecycleSessions : ReqList(s)
    \/ \E s \in LifecycleSessions : \E query \in ProtocolQueries : ReqSearch(s, query)
    \/ \E s \in LifecycleSessions : \E id \in ProtocolIds : ReqPaste(s, id)
    \/ \E s \in LifecycleSessions : \E id \in ProtocolIds : \E tag \in ProtocolTags :
          ReqAddTag(s, id, tag)
    \/ \E s \in LifecycleSessions : \E id \in ProtocolIds : \E tag \in ProtocolTags :
          ReqRemoveTag(s, id, tag)
    \/ \E s \in LifecycleSessions : \E p \in Paths : ~files[p].exists /\ ReqExport(s, p)
    \/ \E s \in LifecycleSessions : \E items \in ProtocolFiles : ReqImport(s, items)
    \/ \E s \in LifecycleSessions : ImportStep(s)
    \/ \E s \in LifecycleSessions : Respond(s)
    \/ \E s \in LifecycleSessions : RespondSearch(s)

\* Every kind of request, served while the ingestion loop fills the store
\* past its limit; the export path is written once.
LifecycleSpec == Init /\ [][LifecycleNext]_vars

\* ------------------------------------------------- two clients tag one row
TagRaceNext ==
    \/ \E e \in LifecycleCaptured : IngestInsert(e)
    \/ IngestCleanup
    \/ CreatePipe
    \/ \E s \in Sessions : Accept(s)
    \/ \E s \in Sessions : \E id \in ProtocolIds : \E tag \in Tags :
          ReqAddTag(s, id, tag)
    \/ \E s \in Sessions : \E id \in ProtocolIds : \E tag \in Tags :
          ReqRemoveTag(s, id, tag)
    \/ \E s \in Sessions : Respond(s)

\* Two sessions that add and remove tags while the ingestion loop inserts.
TagRaceSpec == Init /\ [][TagRaceNext]_vars

\* ------------------------------------------------------------ properties
Ids(rs) == {r.id : r \in rs}
HashTags(rs) == {<<r.hash, r.tags>> : r \in rs}

\* The stores a sequence of insert_entry calls may leave, from the stores S.
RECURSIVE InsertAll(_, _)
InsertAll(S, entries) ==
    IF entries = <<>> THEN S
    ELSE InsertAll(UNION {insert_entry(st.rows, st.seq, Head(entries)) : st \in S},
                   Tail(entries))

\* C1: an insert whose entry's hash is already stored returns Ok and changes
\* nothing: the table, and with it every row's id, created_at, text and tags,
\* and the id counter are as before.
C1_DedupNoOp ==
    [][(last'.op = "insert" /\ last'.skipped = 1)
          => (last'.ok /\ rows' = rows /\ seq' = seq)]_vars

C1_Witness ==
    /\ last.op = "insert"
    /\ last.skipped = 1
    /\ \E r \in rows : r.tags # TagsToJson(<<>>)

\* C2: under every interleaving of the ingestion task's inserts and the
\* sessions' imports, no two stored rows have the same hash.
C2_HashUnique ==
    \A r1, r2 \in rows : r1.hash = r2.hash => r1 = r2

C2_Witness ==
    /\ Cardinality(rows) >= 2
    /\ ingest = "cleanup"
    /\ \E s \in Sessions :
          sess[s].pc = "import" /\ Known(rows, Head(sess[s].pending))

\* C3: over every sequence of insert calls from a store within its bound, the
\* row count after each call is at most max_entries.
C3_EvictionBound == Cardinality(rows) <= max_entries

C3_Witness ==
    /\ last.op = "insert"
    /\ last.evicted >= 1
    /\ Cardinality(rows) = max_entries

\* C4: in every state a store caller can observe, the row count is at most
\* max_entries.
C4_CapacityInvariant == Cardinality(rows) <= max_entries

\* C5: an insert that persists a row deletes exactly the surplus over
\* max_entries, none when there is no surplus; every deleted row is at most as
\* recent as every surviving one; and a row newer than all stored ones survives
\* (max = 1: "hello" then a newer "world" leaves exactly "world").
C5_EvictionExact ==
    [][last'.op = "insert" =>
         \A e \in CapturedEntries :
            (~Known(rows, e) /\ CallInsert(e)) =>
               LET all == rows \cup {RowOf(e, seq')}
                   gone == all \ rows'
                   surplus == Cardinality(all) - max_entries
               IN /\ rows' \subseteq all
                  /\ Cardinality(gone) = IF surplus > 0 THEN surplus ELSE 0
                  /\ \A d \in gone : \A r \in rows' : d.created_at <= r.created_at
                  /\ (max_entries >= 1 /\ \A r \in rows : r.created_at < e.created_at)
                        => RowOf(e, seq') \in rows']_vars

C5_Witness ==
    /\ last.op = "insert"
    /\ last.evicted >= 2
    /\ Cardinality(rows) = max_entries

\* C6: a newly persisted row gets an id greater than every id assigned before,
\* deleted rows' ids included, and a stored row keeps its id.
NewRows == {r \in rows' : ~\E q \in rows : q.hash = r.hash}
C6_IdsNeverReused ==
    [][/\ \A r \in NewRows : \A i \in everIds : r.id > i
       /\ \A q \in rows : \A r \in rows' : q.hash = r.hash => q.id = r.id]_vars

C6_Witness ==
    /\ Cardinality(everIds \ Ids(rows)) >= 2
    /\ \E r \in rows : r.id = MaxId

\* C7: importing a well-formed file leaves a store that calling insert for
\* each entry of the file, in file order, may leave.
C7_ImportEqualsInserts ==
    [][last'.op = "import" =>
         \A items \in UserFiles :
            (~Malformed(items) /\ CallImport("user", items)) =>
               [rows |-> rows', seq |-> seq'] \in
                   InsertAll({[rows |-> rows, seq |-> seq]},
                             [i \in DOMAIN items |-> items[i].entry])]_vars

\* C8: importing an exported file into an empty store gives the (hash, tags)
\* pairs of the store that was exported.
C8_RoundTrip ==
    [][\A p \in Paths :
          (rows = {} /\ files[p].exists /\ CallImport(p, files[p].items))
             => HashTags(rows') = HashTags(exported[p])]_vars

C8_Witness ==
    /\ last.op = "import"
    /\ last.path \in Paths
    /\ last.imported >= 2
    /\ Cardinality(rows) = last.imported
    /\ \E r \in rows : r.tags = TagsToJson(<<"a", "b">>)

\* C9: importing a file into the store it was just exported from changes
\* nothing: every entry is skipped, and rows and ids are as before.
C9_ReimportNoOp ==
    [][\A p \in Paths :
          (last.op = "export" /\ last.path = p /\ CallImport(p, files[p].items))
             => /\ rows' = rows
                /\ seq' = seq
                /\ last'.ok
                /\ last'.imported = 0
                /\ last'.skipped = Len(files[p].items)]_vars

C9_Witness ==
    /\ last.op = "import"
    /\ last.path \in Paths
    /\ last.imported = 0
    /\ last.skipped >= 2
    /\ exported[last.path] = rows
    /\ \E r \in rows : r.tags = TagsToJson(<<"a", "b">>)

\* C10: importing a file with an element that does not parse returns an error
\* and leaves every row and the id counter as they were.
C10_MalformedImport ==
    [][(last'.op = "import" /\ last'.bad)
          => (~last'.ok /\ rows' = rows /\ seq' = seq)]_vars

C10_Witness ==
    /\ last.op = "import"
    /\ last.bad
    /\ ~last.ok
    /\ rows # {}

\* q occurs in s as a run of adjacent characters.
Contains(s, q) ==
    \E i \in 0..(Len(s) - Len(q)) : SubSeq(s, i + 1, i + Len(q)) = q

\* The row's text or its stored tag text contains q, character for character.
RowContains(r, q) ==
    \/ r.text # NoText /\ Contains(Chars(r.text), q)
    \/ Contains(r.tags, q)

FoldCase(s) == [i \in DOMAIN s |-> IF s[i] = "H" THEN "h" ELSE s[i]]

\* The row contains q when letter case is ignored.
RowContainsFolded(r, q) ==
    \/ r.text # NoText /\ Contains(FoldCase(Chars(r.text)), FoldCase(q))
    \/ Contains(FoldCase(r.tags), FoldCase(q))

Min(a, b) == IF a < b THEN a ELSE b
RowsOf(es) == {r \in rows : \E i \in DOMAIN es : es[i].id = r.id}
NewestFirst(es) ==
    \A i, j \in DOMAIN es : i < j => es[i].created_at >= es[j].created_at

\* C11: search(q, limit) returns at most limit entries, most recent first, and
\* each is a stored row whose text or serialized tags contain q literally.
C11_SearchSound ==
    [][resp'.op = "search" =>
         /\ Len(resp'.entries) <= resp'.limit
         /\ NewestFirst(resp'.entries)
         /\ \A i \in DOMAIN resp'.entries :
               \E r \in rows : /\ r.id = resp'.entries[i].id
                               /\ RowContains(r, resp'.query)]_vars

\* C12: search never returns a row that contains the query only in another
\* letter case (text "Hello" is not returned for the query "hello").
C12_CaseSensitive ==
    [][resp'.op = "search" =>
         \A r \in RowsOf(resp'.entries) :
            ~(RowContainsFolded(r, resp'.query) /\ ~RowContains(r, resp'.query))]_vars

\* C13: search("", n) returns what list_recent(n) may return and the other way
\* round, and a Search request with an empty query is answered as List is.
C13_EmptySearchIsList ==
    [][/\ (resp'.op = "search" /\ resp'.query = <<>>)
             => resp'.entries \in list_recent(rows, resp'.limit)
       /\ resp'.op = "list_recent"
             => resp'.entries \in search(rows, <<>>, resp'.limit)
       /\ (resp'.op = "Search" /\ resp'.query = <<>>)
             => resp'.entries \in handle_list(rows)
       /\ resp'.op = "List"
             => resp'.entries \in handle_search(rows, <<>>)]_vars

C13_Witness ==
    /\ resp.op = "search"
    /\ resp.query = <<>>
    /\ resp.limit = 2
    /\ Cardinality(rows) > 2
    /\ \E i \in DOMAIN resp.entries : resp.entries[i].text = NoText

\* C14: list_recent(limit) returns min(limit, row count) distinct stored rows,
\* newest first, none older than a row left out, and changes nothing in the
\* store; a List response holds at most 256 entries.
C14_ListRecent ==
    [][/\ resp'.op = "list_recent" =>
            /\ Len(resp'.entries) = Min(resp'.limit, Cardinality(rows))
            /\ Cardinality(RowsOf(resp'.entries)) = Len(resp'.entries)
            /\ \A i \in DOMAIN resp'.entries :
                  \E r \in rows : /\ r.id = resp'.entries[i].id
                                  /\ r.hash = resp'.entries[i].hash
                                  /\ r.created_at = resp'.entries[i].created_at
            /\ NewestFirst(resp'.entries)
            /\ \A r \in rows \ RowsOf(resp'.entries) :
                  \A i \in DOMAIN resp'.entries :
                     r.created_at <= resp'.entries[i].created_at
            /\ rows' = rows /\ seq' = seq
       /\ resp'.op = "List" =>
            /\ Len(resp'.entries) <= ListLimit
            /\ Len(resp'.entries) = Min(ListLimit, Cardinality(rows))
            /\ rows' = rows /\ seq' = seq]_vars

C14_Witness ==
    /\ resp.op = "list_recent"
    /\ resp.limit = 2
    /\ Len(resp.entries) = 2
    /\ \E r \in rows \ RowsOf(resp.entries) :
          r.created_at < resp.entries[2].created_at

\* The tag list a caller reads from the row with this id.
TagsOf(rs, id) == entry_from_row(CHOOSE r \in rs : r.id = id).tags
Count(tags, t) == Cardinality({i \in DOMAIN tags : tags[i] = t})
Without(tags, t) == SelectSeq(tags, LAMBDA x : x # t)
OtherRows(rs, id) == {r \in rs : r.id # id}

\* C15: add_tag(id, t) on a stored id returns Ok and leaves t in the row's tag
\* list exactly once, the earlier tags in their order and a new tag at the end;
\* applied to a list that holds t, as the second application is, it changes
\* nothing.
C15_AddTagIdempotent ==
    [][last'.op = "add_tag" =>
         \A id \in CallerIds : \A t \in Tags :
             ((\E r \in rows : r.id = id) /\ CallAddTag(id, t)) =>
                /\ last'.ok
                /\ Count(TagsOf(rows', id), t) = 1
                /\ Count(TagsOf(rows, id), t) > 0 => rows' = rows
                /\ Count(TagsOf(rows, id), t) = 0
                      => TagsOf(rows', id) = Append(TagsOf(rows, id), t)
                /\ OtherRows(rows', id) = OtherRows(rows, id)]_vars

\* C16: remove_tag(id, t) on a stored id returns Ok, changes no other row and
\* no other column; a list without t is left as it is, and from a list with t
\* every occurrence goes while the other tags keep their order.
C16_RemoveTag ==
    [][last'.op = "remove_tag" =>
         \A id \in CallerIds : \A t \in Tags :
             ((\E r \in rows : r.id = id) /\ CallRemoveTag(id, t)) =>
                /\ last'.ok
                /\ OtherRows(rows', id) = OtherRows(rows, id)
                /\ \E r \in rows : \E u \in rows' :
                      r.id = id /\ u.id = id /\ [u EXCEPT !.tags = r.tags] = r
                /\ Count(TagsOf(rows, id), t) = 0 => rows' = rows
                /\ Count(TagsOf(rows', id), t) = 0
                /\ TagsOf(rows', id) = Without(TagsOf(rows, id), t)
                /\ seq' = seq]_vars

C16_Witness ==
    /\ last.op = "remove_tag"
    /\ last.ok
    /\ last.row = "found"
    /\ last.same
    /\ Cardinality(rows) >= 2
    /\ \A r \in rows : r.tags # TagsToJson(<<>>)

\* C17: add_tag and remove_tag with an id that names no stored row, one never
\* assigned or one of a deleted row, return an error and change no row.
C17_MissingId ==
    [][last'.op \in {"add_tag", "remove_tag"} =>
         \A id \in CallerIds : \A t \in Tags :
             (~(\E r \in rows : r.id = id)
                 /\ (CallAddTag(id, t) \/ CallRemoveTag(id, t)))
                => (~last'.ok /\ rows' = rows /\ seq' = seq)]_vars

C17_Witness ==
    /\ last.op = "remove_tag"
    /\ ~last.ok
    /\ last.row = "evicted"
    /\ \E r \in rows : r.tags # TagsToJson(<<>>)

\* C18: whatever inserts, imports, add_tag and remove_tag calls came before, no
\* stored row's tag list names a tag twice.
C18_NoDuplicateTags ==
    \A r \in rows : \A t \in Tags : Count(entry_from_row(r).tags, t) <= 1

\* The response lists the stored rows, newest first, each with its id, preview
\* and tags (the model's stores stay below the 256 entries a response holds).
Reflects(es, rs) ==
    /\ Len(es) = Min(ListLimit, Cardinality(rs))
    /\ NewestFirst(es)
    /\ \A r \in rs : \E i \in DOMAIN es :
          /\ es[i].id = r.id
          /\ es[i].created_at = r.created_at
          /\ es[i].preview = r.text
          /\ TagsToJson(es[i].tags) = r.tags

\* C19: a malformed frame ends the session that read it and nothing else: the
\* other sessions stay as they are and the store is untouched; and a session
\* that was connected meanwhile gets, for its next List request, a response
\* that lists the store as it is then.
C19_SessionIsolation ==
    [][/\ \A s \in Sessions :
             BadFrame(s) =>
                /\ sess'[s].pc = "closed"
                /\ \A t \in Sessions \ {s} : sess'[t] = sess[t]
                /\ rows' = rows /\ seq' = seq
       /\ \A t \in trail.peer :
             (sess[t].pc = "list" /\ sess'[t].pc = "idle") =>
                /\ resp'.op = "List"
                /\ resp'.to = t
                /\ Reflects(resp'.entries, rows')]_vars

C19_Witness ==
    /\ resp.op = "List"
    /\ resp.to \in trail.peer
    /\ Len(resp.entries) >= 2
    /\ \E s \in Sessions : sess[s].pc = "closed"

\* C20: a step that ends a session leaves the listener where it is, a failed
\* connect sends it back to create the next endpoint, and it stops only from
\* create_pipe, when that fails.
C20_ListenerSurvives ==
    [][/\ (\E s \in Sessions : sess[s].pc \in Live /\ sess'[s].pc = "closed")
             => listener' = listener
       /\ ConnectFails => listener' = "create"
       /\ (listener # "stopped" /\ listener' = "stopped")
             => (listener = "create" /\ CreatePipeFails)
       /\ listener = "stopped" => listener' = "stopped"]_vars

C20_Witness ==
    /\ trail.came = Kinds
    /\ listener = "connect"
    /\ \E s \in Sessions : sess[s].pc \in Live

\* C21: within a session requests and responses alternate: the response
\* frames written never outnumber the request frames read and fall behind by
\* one at most; a request is read only when every earlier one is answered; a
\* frame is written only to a session that is owed one, by the step that
\* completes its request; and a session that awaits a request is owed nothing.
C21_RequestResponse ==
    [][\A s \in Sessions :
          /\ trail.owed[s] \in {0, 1}
          /\ trail'.owed[s] \in {0, 1}
          /\ trail'.owed[s] > trail.owed[s] => sess[s].pc = "idle"
          /\ (Respond(s) \/ RespondSearch(s)) =>
                /\ resp'.to = s
                /\ trail.owed[s] = 1 /\ trail'.owed[s] = 0
          /\ (resp' # NoResp /\ resp'.to = s) =>
                /\ sess[s].pc \in {"list", "search"}
                /\ trail.owed[s] = 1 /\ trail'.owed[s] = 0
          /\ sess'[s].pc = "idle" => trail'.owed[s] = 0
          /\ sess'[s].pc \in Live \ {"idle"} => trail'.owed[s] = 1]_vars

C21_Witness ==
    \E s \in Sessions : \E t \in Sessions \ {s} :
        /\ resp.op = "Search" /\ resp.to = s
        /\ sess[s].pc = "idle" /\ trail.owed[s] = 0
        /\ sess[t].pc = "import" /\ trail.owed[t] = 1

\* The entry the response lists for the row with this id carries the tag.
Listed(es, id, tag) ==
    \E i \in DOMAIN es :
        es[i].id = id /\ \E k \in DOMAIN es[i].tags : es[i].tags[k] = tag

C23_PasteIsList ==
    [][\A id \in ProtocolIds :
          (last'.op = "paste" /\ CallHandlePaste(id)) =>
                /\ handle_paste(rows, id).ok
                /\ handle_paste(rows, id).out = handle_list(rows)
                /\ last'.ok
                /\ resp'.op = "Paste"
                /\ resp'.entries \in handle_list(rows)
                /\ Reflects(resp'.entries, rows)
                /\ rows' = rows /\ seq' = seq /\ everIds' = everIds
                /\ files' = files]_vars

C23_Witness ==
    /\ resp.op = "Paste"
    /\ last.op = "paste" /\ last.row = "never"
    /\ Len(resp.entries) >= 2

\* C24: a frame that is no Request, AddTag or RemoveTag on an id of no row,
\* Import of a missing or malformed file and Export to a file that cannot be
\* created each close the session in the step that meets the failure: no
\* response is written, the table is left as it was, and the other sessions
\* are untouched; and a closed session reads and writes nothing until the
\* listener accepts a new client in its place.
C24_FailureCloses ==
    [][\A s \in Sessions :
          /\ (/\ sess[s].pc = "idle"
              /\ \/ BadFrame(s)
                 \/ \E id \in ProtocolIds : \E tag \in ProtocolTags :
                       /\ ~HasRow(rows, id)
                       /\ ReqAddTag(s, id, tag) \/ ReqRemoveTag(s, id, tag)
                 \/ \E items \in ProtocolFiles :
                       Malformed(items) /\ ReqImport(s, items)
                 \/ \E p \in Paths :
                       ReqImportMissing(s, p) \/ ReqExportFails(s, p))
                => /\ sess'[s].pc = "closed"
                   /\ resp' = NoResp
                   /\ rows' = rows /\ seq' = seq
                   /\ \A t \in Sessions \ {s} : sess'[t] = sess[t]
          /\ sess[s].pc = "closed" =>
                /\ sess'[s].pc = "closed" \/ Accept(s)
                /\ resp'.to # s
                /\ trail'.owed[s] = 0]_vars

C24_Witness ==
    \E s \in Sessions : \E t \in Sessions \ {s} :
        /\ trail.count /\ trail.seen = {"handler"}
        /\ sess[s].pc = "closed"
        /\ sess[t].pc = "list"
        /\ rows # {}
        /\ resp = NoResp

\* C27: an entry is made ready to send exactly when the tick read one whose
\* hash is not the hash of the entry forwarded last, whether or not an earlier
\* entry had that hash; so no two entries forwarded one after the other have
\* the same hash.
C27_LastHashFilter ==
    [][/\ \A i \in DOMAIN watcher.sent :
             i > 1 => watcher.sent[i].hash # watcher.sent[i - 1].hash
       /\ watcher.sent # <<>> /\ watcher.pc = "poll" =>
             watcher.last_hash = watcher.sent[Len(watcher.sent)].hash
       /\ \A o \in Opens : \A t \in WatcherTimes :
             LET e == entry_opt(clipboard, o, t) IN
             (Poll(o, t) /\ watcher'.tick.read /\ e # None) =>
                (watcher'.pc = "send" <=> e.hash # watcher.last_hash)]_vars

C27_Witness ==
    /\ Len(watcher.sent) = 3
    /\ watcher.sent[1].hash = watcher.sent[3].hash
    /\ Len(queue) = 3

\* C28: every forwarded entry has the kind of the first format, in the order
\* image, rich text, text, that the clipboard held on the tick that read it.
C28_FormatPriority ==
    \A i \in DOMAIN watcher.sent : watcher.sent[i].kind = watcher.sent[i].top

\* C29: after a tick that found changed data it could not read because the
\* clipboard would not open, the next tick reads the clipboard again, though
\* the sequence number is the same.
C29_RetryAfterLock ==
    [][(/\ watcher.tick.missed
        /\ watcher.pc = "poll"
        /\ clipboard' = clipboard
        /\ \E o \in Opens : \E t \in WatcherTimes : Poll(o, t))
          => watcher'.tick.read]_vars

\* C30: a tick reads the clipboard only if the sequence number is not 0 and
\* not the one remembered; a tick that does not read leaves the memo and the
\* channel alone and sends nothing; and no two forwarded entries were read
\* under the same sequence number, and none under 0.
C30_NoDoubleProcessing ==
    [][/\ \A o \in Opens : \A t \in WatcherTimes :
             Poll(o, t) =>
                /\ watcher'.tick.read =>
                      /\ clipboard.sequence # 0
                      /\ clipboard.sequence # watcher.last_sequence
                /\ ~watcher'.tick.read =>
                      /\ watcher'.pc = "poll"
                      /\ watcher'.last_hash = watcher.last_hash
                      /\ watcher'.last_sequence = watcher.last_sequence
                      /\ queue' = queue
       /\ \A i \in DOMAIN watcher'.sent :
             /\ watcher'.sent[i].sequence # 0
             /\ \A j \in DOMAIN watcher'.sent :
                   i # j => watcher'.sent[i].sequence # watcher'.sent[j].sequence]_vars

C30_Witness ==
    /\ Len(watcher.sent) = 2
    /\ watcher.pc = "poll"
    /\ ~watcher.tick.read
    /\ watcher.last_sequence = clipboard.sequence
    /\ clipboard.sequence = MaxSequence

\* C25: in the step in which a unit of run comes to its end, run returns and
\* main goes on to shut down; while the daemon runs every unit is pending; the
\* daemon is marked failed only when a unit has ended with an error; and a
\* unit that has ended is never seen pending again.
C25_AnyUnitEndsDaemon ==
    [][/\ Units(ingest', listener') # Units(ingest, listener) =>
             (daemon = "running" /\ daemon' = "failed")
       /\ daemon' = "running" =>
             \A k \in DOMAIN Units(ingest', listener') :
                 Units(ingest', listener')[k] = "pending"
       /\ daemon' = "failed" =>
             \E k \in DOMAIN Units(ingest', listener') :
                 Units(ingest', listener')[k] = "err"
       /\ \A k \in DOMAIN Units(ingest, listener) :
             Units(ingest, listener)[k] # "pending" =>
                Units(ingest', listener')[k] = Units(ingest, listener)[k]
       /\ daemon # "running" =>
             /\ daemon' = daemon
             /\ UNCHANGED <<rows, seq, ingest, listener, sess, queue, watcher>>]_vars

C25_Witness ==
    /\ daemon = "failed"
    /\ listener = "stopped"
    /\ ingest = "idle"
    /\ queue # <<>>
    /\ watcher.pc = "send"
    /\ \E s \in Sessions : sess[s].pc = "list"

\* C26: when insert_entry fails for the entry the ingestion loop received,
\* the loop ends in that step: the entry is gone from the channel and is not
\* put back, no row is written for it, run returns the error and the daemon
\* shuts down; the entries still in the channel are never stored.
C26_InsertFailureFatal ==
    [][/\ IngestRecvFails =>
             /\ ingest' = "failed"
             /\ queue' = Tail(queue)
             /\ rows' = rows /\ seq' = seq
             /\ try_join(Units(ingest', listener')) = "err"
             /\ daemon' = "failed"
       /\ IngestCleanupFails =>
             /\ ingest' = "failed"
             /\ queue' = queue
             /\ rows' = rows /\ seq' = seq
             /\ try_join(Units(ingest', listener')) = "err"
             /\ daemon' = "failed"
       /\ ingest = "failed" =>
             /\ ingest' = "failed"
             /\ daemon' = "failed"
             /\ rows' = rows /\ queue' = queue]_vars

C26_Witness ==
    /\ ingest = "failed"
    /\ daemon = "failed"
    /\ queue # <<>>
    /\ rows # {}
    /\ listener = "connect"

\* C31: every store call takes effect as one step under the lock: no session
\* is answered from a store in which insert_entry has written its row and has
\* not yet run its eviction.
C31_StoreCallAtomic ==
    (resp # NoResp /\ resp.op = "List") => ingest # "cleanup"

\* C32: while a clipboard call of the watcher has not returned, the listener
\* still goes on: it creates its pipe, accepts a client that connects, and a
\* session whose request was read still writes its response.
C32_HangIsolated ==
    (TaskStuck /\ daemon = "running") =>
        /\ listener = "create" => ENABLED CreatePipe
        /\ \A s \in Sessions :
              (listener = "connect" /\ sess[s].pc = "closed") => ENABLED Accept(s)
        /\ \A s \in Sessions : sess[s].pc = "list" => ENABLED Respond(s)

\* C33: the channel never holds more than its capacity; a watcher that has an
\* entry to send while the channel is full keeps waiting with that entry until
\* the ingestion loop has received one; the channel changes only by the
\* ingestion loop taking its oldest entry or by the watcher's entry being
\* appended; and the watcher leaves its send only with its entry appended.
C33_Backpressure ==
    [][/\ Len(queue) <= channel_capacity
       /\ Len(queue') <= channel_capacity
       /\ (watcher.pc = "send" /\ Len(queue) = channel_capacity) =>
             /\ watcher' = watcher
             /\ queue' \in {queue, Tail(queue)}
       /\ queue' # queue =>
             \/ queue # <<>> /\ queue' = Tail(queue) /\ watcher' = watcher
             \/ /\ watcher.pc = "send"
                /\ queue' = Append(queue, watcher.entry)
                /\ watcher'.pc = "poll"
       /\ (watcher.pc = "send" /\ watcher' # watcher) =>
             queue' = Append(queue, watcher.entry)]_vars

C33_Witness ==
    /\ Len(queue) = channel_capacity
    /\ watcher.pc = "send"
    /\ watcher.entry # None
    /\ ingest = "idle"
    /\ Len(watcher.sent) = channel_capacity

\* The entries of a file's items, and whether they come oldest first.
EntriesOf(items) == {items[i].entry : i \in DOMAIN items}
OldestFirst(items) ==
    \A i, j \in DOMAIN items :
        i < j => items[i].entry.created_at <= items[j].entry.created_at

\* C34: a step that reads or writes a file leaves the store alone. A session
\* enters export with the rows of that instant, each once and oldest first,
\* and no file touched; what it holds does not change while others run; the
\* file it then writes holds exactly what it read, whatever the store holds
\* by then. A session enters import without touching the store, and each
\* step of its loop handles one entry and adds at most one row.
C34_LockDiscipline ==
    [][/\ files' # files => (rows' = rows /\ seq' = seq)
       /\ \A s \in Sessions :
             /\ (sess[s].pc = "idle" /\ sess'[s].pc = "export") =>
                   /\ rows' = rows /\ files' = files
                   /\ Len(sess'[s].pending) = Cardinality(rows)
                   /\ EntriesOf(sess'[s].pending) = {entry_from_row(r) : r \in rows}
                   /\ OldestFirst(sess'[s].pending)
             /\ (sess[s].pc = "export" /\ sess'[s].pc = "export") =>
                   sess'[s] = sess[s]
             /\ (sess[s].pc = "export" /\ sess'[s].pc = "list") =>
                   /\ files'[sess[s].path] =
                         [exists |-> TRUE, items |-> sess[s].pending]
                   /\ rows' = rows
             /\ (sess[s].pc = "idle" /\ sess'[s].pc = "import") =>
                   (rows' = rows /\ seq' = seq /\ files' = files)
             /\ (sess[s].pc = "import" /\ sess'[s] # sess[s]) =>
                   /\ files' = files
                   /\ Cardinality(rows') <= Cardinality(rows) + 1
                   /\ \/ sess'[s] = Session("import", Tail(sess[s].pending))
                      \/ /\ Len(sess[s].pending) = 1
                         /\ sess'[s] = Session("list", <<>>)]_vars

\* An export that has released the lock and not yet written its file while
\* the store has moved on, an import between its two entries, and the
\* ingestion loop between its INSERT and its eviction.
C34_Witness ==
    /\ \E s \in Sessions :
          /\ sess[s].pc = "export"
          /\ Len(sess[s].pending) < Cardinality(rows)
    /\ \E t \in Sessions :
          /\ sess[t].pc = "import"
          /\ Len(sess[t].pending) = 1
    /\ ingest = "cleanup"

\* The rows of rs whose tags differ in the table after.
Retagged(rs, after) ==
    {r \in rs : HasRow(after, r.id) /\ RowWithId(after, r.id).tags # r.tags}

\* C35: a row disappears only in the step in which insert_entry runs its
\* eviction after its INSERT; no request of a session deletes a row; a row
\* keeps its created_at, hash and text for as long as it is stored; and tags
\* change only in a step that is an AddTag or RemoveTag request for that
\* row's id, which changes that one row's tags and nothing else in the table.
C35_LifecycleFrame ==
    [][/\ (\E r \in rows : ~HasRow(rows', r.id)) =>
             (ingest = "cleanup" /\ ingest' = "idle" /\ sess' = sess)
       /\ \A r \in rows : \A q \in rows' :
             q.id = r.id =>
                (q.created_at = r.created_at /\ q.hash = r.hash /\ q.text = r.text)
       /\ Retagged(rows, rows') # {} =>
             /\ Cardinality(Retagged(rows, rows')) = 1
             /\ Ids(rows') = Ids(rows)
             /\ rows \ Retagged(rows, rows') \subseteq rows'
             /\ \E s \in Sessions : \E id \in ProtocolIds : \E tag \in ProtocolTags :
                   /\ ReqAddTag(s, id, tag) \/ ReqRemoveTag(s, id, tag)
                   /\ Retagged(rows, rows') = {RowWithId(rows, id)}]_vars

\* A row tagged by a request is still stored, with its tag, after an eviction
\* has removed another row.
C35_Witness ==
    /\ HasRow(rows, 1)
    /\ RowWithId(rows, 1).tags = TagsToJson(<<"a">>)
    /\ Cardinality(rows) = max_entries
    /\ Cardinality(everIds) > max_entries
    /\ ingest = "idle"

\* How many of the forwarded entries the ingestion loop has received.
Received(w, q) == Len(w.sent) - Len(q)

\* C36: the channel holds the entries forwarded last, in the order they were
\* forwarded; the ingestion loop receives them one at a time, each time the
\* one forwarded earliest among those not yet received, and calls insert with
\* it, so that its hash is stored when the call has not failed; and while the
\* daemon runs, the n-th forwarded entry is in the end received.
C36_PipelineDelivery ==
    /\ [][/\ Received(watcher, queue) >= 0
          /\ \A i \in DOMAIN queue :
                queue[i].hash = watcher.sent[Received(watcher, queue) + i].hash
          /\ Received(watcher', queue') \in
                {Received(watcher, queue), Received(watcher, queue) + 1}
          /\ Received(watcher', queue') = Received(watcher, queue) + 1 =>
                /\ queue # <<>>
                /\ queue' = Tail(queue)
                /\ watcher'.sent = watcher.sent
                /\ ingest = "idle"
                /\ ingest' = "failed" \/ HashExists(rows', Head(queue).hash)
                /\ Cardinality(rows') <= Cardinality(rows) + 1]_vars
    /\ \A n \in 1..MaxSequence :
          (Len(watcher.sent) >= n) ~>
              (Received(watcher, queue) >= n \/ daemon # "running")

\* Three entries were forwarded, two of them are stored and the third has
\* been received as well: the channel is empty again.
C36_Witness ==
    /\ Len(watcher.sent) = 3
    /\ queue = <<>>
    /\ Cardinality(rows) = 2
    /\ ingest = "idle"
    /\ daemon = "running"

\* The tags of the row with this id, as a set.
TagSet(rs, id) ==
    LET tags == TagsFromJson(RowWithId(rs, id).tags) IN
    {tags[i] : i \in DOMAIN tags}

\* C37: an AddTag request for a stored id leaves that row with every tag it
\* had and the tag asked for, whichever session asks and whatever the other
\* session has done before; and a row loses a tag only in a step that is a
\* RemoveTag request for its id. So when two sessions have each added a tag
\* to a row that was not evicted and had no tag removed, it carries both.
C37_NoLostTagUpdate ==
    [][/\ \A s \in Sessions : \A id \in ProtocolIds : \A tag \in Tags :
             (sess[s].pc = "idle" /\ HasRow(rows, id) /\ ReqAddTag(s, id, tag)) =>
                /\ HasRow(rows', id)
                /\ TagSet(rows', id) = TagSet(rows, id) \cup {tag}
       /\ \A r \in rows :
             (HasRow(rows', r.id) /\ ~(TagSet(rows, r.id) \subseteq TagSet(rows', r.id))) =>
                \E s \in Sessions : \E tag \in Tags :
                   sess[s].pc = "idle" /\ ReqRemoveTag(s, r.id, tag)]_vars

\* Both sessions have added a tag to row 1, b before a, and neither has been
\* answered yet.
C37_Witness ==
    /\ HasRow(rows, 1)
    /\ TagsFromJson(RowWithId(rows, 1).tags) = <<"b", "a">>
    /\ \A s \in Sessions : sess[s].pc = "list"
    /\ ingest = "cleanup"

\* C38: when insert_entry has stored a new row and returned, that row, the
\* one with the id just assigned, is in the table.
C38_NewRowSurvives ==
    [][(last'.op = "insert" /\ last'.imported = 1) => HasRow(rows', seq')]_vars

\* C39: an insert_entry call run on its own that stored a new row leaves at
\* most max_entries rows, however many the table held before; one that found
\* the hash stored leaves the table as it was, however many rows it holds.
C39_BoundRestored ==
    [][last'.op = "insert" =>
          IF last'.imported = 1
          THEN /\ Cardinality(rows') <= max_entries
               /\ seq' = seq + 1
          ELSE rows' = rows /\ seq' = seq]_vars

\* An insert into a table that held more rows than the limit has deleted two
\* rows at once.
C39_Witness ==
    /\ last.op = "insert"
    /\ last.imported = 1
    /\ last.evicted >= 2
    /\ Cardinality(rows) = max_entries

\* C40: the client is never out of step with the daemon's frames, and its UI
\* has ingested the responses the daemon wrote in the order written, each
\* once: the i-th response ingested is the i-th written.
C40_FramingInSync ==
    /\ client.pc # "desync"
    /\ \A i \in DOMAIN client.ui : client.ui[i] = i

====
